---- MODULE Spec2Model ----
(***************************************************************************)
(* A model of LingConvert's process-orchestration core:                    *)
(*   - FFmpegTool.ensureReady / Version (readiness check and its cache),   *)
(*   - FFmpegTool.RunWithProgress (one supervised subprocess run),         *)
(*   - the demo server's FFJob hub (subscribe / unsubscribe / broadcast),  *)
(*     its job goroutine and its event-stream handler,                     *)
(*   - the JobStore, the eviction of a finished job and the download       *)
(*     handler,                                                            *)
(*   - the progress decode (parseProgressLine, applyKV, scanProgress),     *)
(*   - the critical sections of the three mutexes,                         *)
(*   - writeSSE,                                                           *)
(*   - the FFmpegCommand builder and the argument vectors made from it.    *)
(* Each part has its own specification (SpecTool, SpecRun, SpecRunFair and *)
(* SpecRunCmd, SpecJob, SpecHub, SpecStore, SpecDecode, SpecLock, SpecSSE, *)
(* SpecCmd and SpecArgs); the variables of the other parts stay at their   *)
(* initial value.                                                          *)
(***************************************************************************)
EXTENDS Integers, Sequences, FiniteSets, TLC

VARIABLES
  \* ---- FFmpegTool (src/unnamed/part_000:78-87) and its callers ----
  checked,        \* t.checked
  resolvedPath,   \* t.resolvedPath ("" when unset)
  version,        \* t.version ("" when unset)
  checkErr,       \* t.checkErr ("nil" or an error kind)
  binary,         \* the environment: what the configured binary is
  cpc,            \* cpc[c]: where caller c is inside its call
  cop,            \* cop[c]: the method caller c invoked
  cctx,           \* cctx[c]: the state of the context caller c passed
  clocal,         \* clocal[c]: ensureReady's locals (resolved, outcome)
  cret,           \* cret[c]: what ensureReady last returned to c ("none" before)
  cval,           \* cval[c]: what Version / Run last read under the lock
  cseen,          \* cseen[c]: the cached error when c's call began (history)
  ncalls,         \* calls made on the instance so far
  nChecks,        \* how many times exec.LookPath was executed (history)
  nProbes,        \* how many times the -version subprocess was run (history)
  \* ---- one FFmpegTool.RunWithProgress call (src/media/ffmpeg/run.go) ----
  rpc,            \* where the call is
  rTimeout,       \* t.Timeout > 0
  rSink,          \* onProgress != nil
  runCtx,         \* cctx.Err(): "nil", "DeadlineExceeded" or "Canceled"
  proc,           \* the subprocess: none, running, exited0, exitedN, killed
  killSent,       \* exec's context watcher delivered Process.Kill
  pipesClosed,    \* execCmd.Wait closed the parent's pipe ends
  drain,          \* drain[d]: none, running, done, for d in Drains
  nDrains,        \* goroutines launched by the call (history)
  nLines,         \* lines scanProgress has read
  waitErr,        \* execCmd.Wait's result: unset, nil, ExitError, other
  mapCtx,         \* cctx.Err() as it was when the outcome was mapped
  rResult,        \* what the call returned ("none" before it returns)
  rErr,           \* the error ensureReady returned to the call
  stderrBuf,      \* stderrBuf: the bytes copied from the secondary stream
  sinkErr,        \* the sink has returned an error
  rLast,          \* last: "zero", "set" (written by scanProgress) or "done"
  rDiag,          \* the diagnostic text embedded in the returned error
  nWritten,       \* progress lines the subprocess has written to its stdout
  ctxBy,          \* what ended the run-scoped context (history)
  rArgs,          \* the arguments handed to exec.CommandContext (run.go:54)
  \* ---- one FFJob, its goroutine and its event-stream handlers ----
  \* ---- (src/example/demo/main.go)                               ----
  jobStatus,      \* job.Status
  statusWr,       \* the value an unfinished write of job.Status is storing
  jpc,            \* where the job goroutine is
  lineBudget,     \* progress lines the subprocess of this job emits at most
  nProgress,      \* sink invocations so far
  subs,           \* job.subs: the registered channels (by handler)
  chan,           \* chan[s]: the buffered events of handler s's channel
  chClosed,       \* chClosed[s]: the channel has been closed
  hpc,            \* hpc[s]: where handler s is
  shown,          \* shown[s]: the events written to s's response, in order
  bcast,          \* every event the job goroutine has broadcast (history)
  subAt,          \* subAt[s]: Len(bcast) when s subscribed (history)
  everFull,       \* everFull[s]: a broadcast found s's channel full (history)
  lastDeliv,      \* lastDeliv[s]: the last event sent into s's channel (history)
  endSubs,        \* job.subs as it was at the terminal broadcast (history)
  subStatus,      \* subStatus[s]: job.Status when s subscribed (history)
  \* ---- the JobStore, the job's artifact, its eviction timer and the ----
  \* ---- download handler (src/example/demo/main.go)                 ----
  jobs,           \* the ids in JobStore.jobs
  artifact,       \* the file job.OutputPath exists
  timer,          \* the AfterFunc timer: none, armed, removing, fired
  nSched,         \* how many times eviction was scheduled (history)
  nFired,         \* how many times the eviction function ran (history)
  dpc,            \* where the download handler is
  did,            \* the id of the request it is serving
  dres,           \* its last response: none, notfound, notdone, file, nofile
  nReq,           \* download requests so far
  \* ---- one scanProgress call (src/media/ffmpeg/run.go:115-135) ----
  sp,             \* p, the snapshot the lines are folded into
  slast,          \* *last
  spc,            \* "scan" while the loop runs, "returned" after
  nScan,          \* lines read
  curLine,        \* the line read last (history)
  sunk,           \* the snapshots handed to the sink, in order (history)
  cbRet,          \* the sink's last return value was an error (history)
  endSeen,        \* a progress=end line has been read (history)
  \* ---- the mutexes (FFmpegTool.mu, FFJob.mu, JobStore.mu) and the ----
  \* ---- goroutines that take them                                 ----
  lpc,            \* lpc[g]: the next step of goroutine g's code
  lheld,          \* lheld[g]: the mutexes g holds
  lop,            \* lop[g]: the operation g is executing (NoOp between)
  \* ---- writeSSE ----
  sseIn,          \* the event name and data of the writeSSE call
  sseOut,         \* the bytes written to the response
  \* ---- an FFmpegCommand and the argument vectors made from it ----
  heap,           \* the backing arrays of the slices, by allocation order
  cargs,          \* c.args: a slice (array, len, cap)
  cghost,         \* the argument list the mutator calls have built (history)
  calls,          \* the (flag, value) pairs of the mutator calls (history)
  nMut,           \* the number of mutator calls that changed c.args
  snaps           \* the vectors handed out by Args(), as given and now

toolVars == <<checked, resolvedPath, version, checkErr, binary, cpc, cop, cctx,
              clocal, cret, cval, cseen, ncalls, nChecks, nProbes>>

runVars == <<rpc, rTimeout, rSink, runCtx, proc, killSent, pipesClosed, drain,
             nDrains, nLines, waitErr, mapCtx, rResult, rErr, stderrBuf,
             sinkErr, rLast, rDiag, nWritten, ctxBy, rArgs>>

\* The environment of a run: what the subprocess wrote, what ended the context.
runEnv == <<nWritten, ctxBy>>

\* The data of a run: what its drains collect and what it hands back.
runData == <<rErr, stderrBuf, sinkErr, rLast, rDiag, rArgs>>

jobVars == <<jobStatus, statusWr, jpc, lineBudget, nProgress, subs, chan,
             chClosed, hpc, shown, bcast, subAt, everFull, lastDeliv, endSubs,
             subStatus>>

storeVars == <<jobs, artifact, timer, nSched, nFired, dpc, did, dres, nReq>>

decodeVars == <<sp, slast, spc, nScan, curLine, sunk, cbRet, endSeen>>

lockVars == <<lpc, lheld, lop>>

sseVars == <<sseIn, sseOut>>

cmdVars == <<heap, cargs, cghost, calls, nMut, snaps>>

vars == <<toolVars, runVars, jobVars, storeVars, decodeVars, lockVars,
          sseVars, cmdVars>>

\* What the actions of one part leave alone.
notToolVars == <<runVars, jobVars, storeVars, decodeVars, lockVars,
  sseVars, cmdVars>>
notRunVars == <<toolVars, jobVars, storeVars, decodeVars, lockVars,
  sseVars, cmdVars>>
notJobVars == <<toolVars, runVars, storeVars, decodeVars, lockVars,
  sseVars, cmdVars>>
notStoreVars == <<toolVars, runVars, jobVars, decodeVars, lockVars,
  sseVars, cmdVars>>
notDecodeVars == <<toolVars, runVars, jobVars, storeVars, lockVars,
  sseVars, cmdVars>>
notLockVars == <<toolVars, runVars, jobVars, storeVars, decodeVars, sseVars,
  cmdVars>>
notSSEVars == <<toolVars, runVars, jobVars, storeVars, decodeVars, lockVars,
  cmdVars>>
notCmdVars == <<toolVars, runVars, jobVars, storeVars, decodeVars, lockVars,
  sseVars>>

--------------------------------------------------------------------------
(* Bounds *)

\* Number of goroutines that call into one tool instance.
NCallers == 2
\* Calls made on one tool instance, over all callers.
MaxCalls == 3

Callers == 1..NCallers

\* Progress lines one subprocess writes to its primary stream.
MaxLines == 2

\* Bytes one subprocess writes to its secondary stream.
MaxStderr == 2
\* The size a bounded diagnostic text would be held to.
DiagCap == 1

\* Progress events of a job when every interleaving of its handlers is
\* explored (SpecJob).
MaxProgress == 1
\* Lines fed to one scanProgress call.
MaxScan == 3

\* Download requests made while one job exists and after.
MaxRequests == 3

\* Progress events of a job in the slow-subscriber scenario (SpecHub): with
\* the status event before them, enough to overfill one channel.
HubProgress == 16

\* The event-stream requests made for one job.  Each has its own channel,
\* and broadcast treats every channel alike.
Subs == {"s1", "s2"}

\* make(chan sseEvent, 16) in FFJob.subscribe.
ChanCap == 16

--------------------------------------------------------------------------
(* FFmpegTool.ensureReady, Version and the head of Run.                   *)
(* media/ffprobe's Tool.ensureReady (src/media/ffprobe/media.go:79-145)   *)
(* has the same shape, with min(Timeout, 5s) as the probe deadline.       *)

\* What the configured path can be: no such binary, a binary that exits
\* non-zero on -version, one that does not answer within the 5 s probe
\* deadline, one that answers with a parsable banner, one whose banner has
\* no version token.
BinaryKinds == {"missing", "broken", "hangs", "ok", "okNoVer"}

\* The caller's context when the probe runs.
CtxStates == {"live", "cancelled", "expired"}

ToolOps == {"ensureReady", "Version", "Run"}

ToolInit ==
  /\ checked = FALSE
  /\ resolvedPath = ""
  /\ version = ""
  /\ checkErr = "nil"
  /\ cpc = [c \in Callers |-> "idle"]
  /\ cop = [c \in Callers |-> "ensureReady"]
  /\ cctx = [c \in Callers |-> "live"]
  /\ clocal = [c \in Callers |-> [resolved |-> "", outcome |-> "none"]]
  /\ cret = [c \in Callers |-> "none"]
  /\ cval = [c \in Callers |-> "none"]
  /\ cseen = [c \in Callers |-> "unchecked"]
  /\ ncalls = 0
  /\ nChecks = 0
  /\ nProbes = 0

\* exec.LookPath(path): the resolved path, or "" when it fails.
LookPath(bin) == IF bin = "missing" THEN "" ELSE "/usr/bin/ffmpeg"

\* cmd.Run() of `resolved -version` under context.WithTimeout(ctx, 5s),
\* followed by the error classification of lines 129-136: "nil" on success.
\* A context that is already done makes Run fail whatever the binary is.
ProbeOutcome(bin, ctx) ==
  IF ctx = "expired" THEN "timedout"
  ELSE IF ctx = "cancelled" THEN "cannotrun_ctx"
  ELSE IF bin = "hangs" THEN "timedout"
  ELSE IF bin = "broken" THEN "cannotrun_exit"
  ELSE "nil"

\* parseFFmpegVersion(stdout) with the "unknown" fallback of lines 145-148.
ParsedVersion(bin) == IF bin = "ok" THEN "6.0" ELSE "unknown"

\* A caller enters ensureReady (directly, or through Version or Run).
ToolCall(c) ==
  /\ cpc[c] = "idle"
  /\ ncalls < MaxCalls
  /\ \E op \in ToolOps, cx \in CtxStates :
       /\ cop' = [cop EXCEPT ![c] = op]
       /\ cctx' = [cctx EXCEPT ![c] = cx]
  /\ ncalls' = ncalls + 1
  /\ cpc' = [cpc EXCEPT ![c] = "gate"]
  /\ clocal' = [clocal EXCEPT ![c] = [resolved |-> "", outcome |-> "none"]]
  /\ cseen' = [cseen EXCEPT ![c] = IF checked THEN checkErr ELSE "unchecked"]
  /\ UNCHANGED <<checked, resolvedPath, version, checkErr, binary, cret, cval,
                 nChecks, nProbes>>
  /\ UNCHANGED notToolVars

\* Lines 97-103: under t.mu, return the cached error when checked; the lock
\* is released before the check itself.
ensureReady_Gate(c) ==
  /\ cpc[c] = "gate"
  /\ IF checked
       THEN /\ cret' = [cret EXCEPT ![c] = checkErr]
            /\ cpc' = [cpc EXCEPT ![c] = "returned"]
       ELSE /\ cpc' = [cpc EXCEPT ![c] = "lookup"]
            /\ UNCHANGED cret
  /\ UNCHANGED <<checked, resolvedPath, version, checkErr, binary, cop, cctx,
                 clocal, cval, ncalls, nChecks, nProbes>>
  /\ UNCHANGED cseen
  /\ UNCHANGED notToolVars

\* Lines 105-115: exec.LookPath outside the lock; on failure the error is
\* stored under the lock (resolvedPath and version are not written).
ensureReady_LookPath(c) ==
  /\ cpc[c] = "lookup"
  /\ nChecks' = nChecks + 1
  /\ IF LookPath(binary) = ""
       THEN /\ checked' = TRUE
            /\ checkErr' = "notfound"
            /\ cpc' = [cpc EXCEPT ![c] = "retNotFound"]
            /\ UNCHANGED clocal
       ELSE /\ clocal' = [clocal EXCEPT ![c].resolved = LookPath(binary)]
            /\ cpc' = [cpc EXCEPT ![c] = "probe"]
            /\ UNCHANGED <<checked, checkErr>>
  /\ UNCHANGED <<resolvedPath, version, binary, cop, cctx, cret, cval, ncalls,
                 nProbes>>
  /\ UNCHANGED cseen
  /\ UNCHANGED notToolVars

\* Line 116: `return t.checkErr`, read after the unlock.
ensureReady_ReturnNotFound(c) ==
  /\ cpc[c] = "retNotFound"
  /\ cret' = [cret EXCEPT ![c] = checkErr]
  /\ cpc' = [cpc EXCEPT ![c] = "returned"]
  /\ UNCHANGED <<checked, resolvedPath, version, checkErr, binary, cop, cctx,
                 clocal, cval, ncalls, nChecks, nProbes>>
  /\ UNCHANGED cseen
  /\ UNCHANGED notToolVars

\* Lines 119-136: the -version subprocess, outside the lock.
ensureReady_Probe(c) ==
  /\ cpc[c] = "probe"
  /\ nProbes' = nProbes + 1
  /\ clocal' = [clocal EXCEPT ![c].outcome = ProbeOutcome(binary, cctx[c])]
  /\ cpc' = [cpc EXCEPT ![c] = "store"]
  /\ UNCHANGED <<checked, resolvedPath, version, checkErr, binary, cop, cctx,
                 cret, cval, ncalls, nChecks>>
  /\ UNCHANGED cseen
  /\ UNCHANGED notToolVars

\* Lines 137-142 (failure) and 145-156 (success): the outcome is stored
\* under the lock and returned from the local.
ensureReady_Store(c) ==
  /\ cpc[c] = "store"
  /\ checked' = TRUE
  /\ resolvedPath' = clocal[c].resolved
  /\ checkErr' = clocal[c].outcome
  /\ version' = IF clocal[c].outcome = "nil" THEN ParsedVersion(binary) ELSE version
  /\ cret' = [cret EXCEPT ![c] = clocal[c].outcome]
  /\ cpc' = [cpc EXCEPT ![c] = "returned"]
  /\ UNCHANGED <<binary, cop, cctx, clocal, cval, ncalls, nChecks, nProbes>>
  /\ UNCHANGED cseen
  /\ UNCHANGED notToolVars

\* After ensureReady: ensureReady's own caller is done; Version (lines
\* 159-166) returns t.version under the lock and Run (run.go:44-46) reads
\* t.resolvedPath under the lock, both only when the error is nil.
ToolAfterReady(c) ==
  /\ cpc[c] = "returned"
  /\ cval' = [cval EXCEPT ![c] =
        IF cret[c] # "nil" THEN "none"
        ELSE IF cop[c] = "Version" THEN version
        ELSE IF cop[c] = "Run" THEN resolvedPath
        ELSE "none"]
  /\ cpc' = [cpc EXCEPT ![c] = "idle"]
  /\ cop' = [cop EXCEPT ![c] = "ensureReady"]
  /\ cctx' = [cctx EXCEPT ![c] = "live"]
  /\ clocal' = [clocal EXCEPT ![c] = [resolved |-> "", outcome |-> "none"]]
  /\ cseen' = [cseen EXCEPT ![c] = "unchecked"]
  /\ UNCHANGED <<checked, resolvedPath, version, checkErr, binary, cret,
                 ncalls, nChecks, nProbes>>
  /\ UNCHANGED notToolVars

NextTool ==
  \E c \in Callers :
    \/ ToolCall(c)
    \/ ensureReady_Gate(c)
    \/ ensureReady_LookPath(c)
    \/ ensureReady_ReturnNotFound(c)
    \/ ensureReady_Probe(c)
    \/ ensureReady_Store(c)
    \/ ToolAfterReady(c)

--------------------------------------------------------------------------
(* Go slices, FFmpegCommand.Args / AppendArgs (part_001:17-26) and the    *)
(* arguments of a run (run.go:48-52).  A slice is a window (array, len,   *)
(* cap) on a backing array; append writes in place while the capacity     *)
(* allows and moves to a new array otherwise.                             *)

\* make([]string, n, c).
make(h, n, c) ==
  [heap |-> Append(h, [i \in 1..c |-> ""]),
   sl |-> [arr |-> Len(h) + 1, len |-> n, cap |-> c]]

\* The elements of a slice.
Content(h, sl) == SubSeq(h[sl.arr], 1, sl.len)

\* append(sl, toks...): in place when the capacity allows; otherwise a new
\* array of twice the capacity, or of the needed length when that is more
\* (the growth rule below 256 elements; no size-class rounding applies to
\* string slices this short).
GoAppend(h, sl, toks) ==
  LET need == sl.len + Len(toks) IN
    IF need <= sl.cap
      THEN [heap |-> [h EXCEPT ![sl.arr] =
                        [i \in 1..sl.cap |->
                           IF i > sl.len /\ i <= need
                             THEN toks[i - sl.len] ELSE @[i]]],
            sl |-> [sl EXCEPT !.len = need]]
      ELSE LET newcap == IF need > 2 * sl.cap THEN need ELSE 2 * sl.cap
               elems == Content(h, sl) \o toks
           IN [heap |-> Append(h, [i \in 1..newcap |->
                                     IF i <= need THEN elems[i] ELSE ""]),
               sl |-> [arr |-> Len(h) + 1, len |-> need, cap |-> newcap]]

\* Args returning c.args itself.
Args_Alias(h, sl) == [heap |-> h, sl |-> sl]

\* Args (part_001:17-21): make and copy.
Args(h, sl) ==
  LET m == make(h, sl.len, sl.len) IN
    [heap |-> [m.heap EXCEPT ![m.sl.arr] = Content(h, sl)], sl |-> m.sl]

\* AppendArgs (part_001:23-26).
AppendArgs(h, sl, toks) == GoAppend(h, sl, toks)

\* The arguments of a run that never asks for progress output.
RunArgs_NoFlags(h, sl, sink) ==
  LET a == Args(h, sl) IN Content(a.heap, a.sl)

\* run.go:48-52: cmd.Args(), with the progress flags appended when there is
\* a sink.
RunArgs(h, sl, sink) ==
  LET a == Args(h, sl)
      r == IF sink
             THEN GoAppend(a.heap, a.sl, <<"-progress", "pipe:1", "-nostats">>)
             ELSE a
  IN Content(r.heap, r.sl)

--------------------------------------------------------------------------
(* FFmpegTool.RunWithProgress (src/media/ffmpeg/run.go:23-113) and        *)
(* scanProgress (run.go:115-135).  The subprocess, the contexts and       *)
(* os/exec are the environment.                                           *)

Drains == {"stderr", "stdout"}

\* What the subprocess writes to its secondary stream, byte by byte.
StderrBytes == {"e", " "}

\* unicode.IsSpace for the bytes of the model.
IsSpace(ch) == ch \in {" ", "\t", "\n", "\r"}

\* strings.TrimSpace: leading and trailing white space removed.
RECURSIVE TrimLeft(_)
TrimLeft(s) ==
  IF s # <<>> /\ IsSpace(Head(s)) THEN TrimLeft(Tail(s)) ELSE s

RECURSIVE TrimRight(_)
TrimRight(s) ==
  IF s # <<>> /\ IsSpace(s[Len(s)])
    THEN TrimRight(SubSeq(s, 1, Len(s) - 1)) ELSE s

TrimSpace(s) == TrimRight(TrimLeft(s))

\* trimSpace (run.go:137-141): strings.TrimSpace and nothing else; the
\* truncation its comment mentions is not done.
trimSpace(s) == TrimSpace(s)

CtxErrs == {"nil", "DeadlineExceeded", "Canceled"}

\* The variables of a call that has not been made.
RunIdle ==
  /\ rpc = "entry"
  /\ rTimeout = FALSE
  /\ rSink = FALSE
  /\ runCtx = "nil"
  /\ proc = "none"
  /\ killSent = FALSE
  /\ pipesClosed = FALSE
  /\ drain = [d \in Drains |-> "none"]
  /\ nDrains = 0
  /\ nLines = 0
  /\ waitErr = "unset"
  /\ mapCtx = "nil"
  /\ rResult = "none"
  /\ rErr = "nil"
  /\ stderrBuf = <<>>
  /\ sinkErr = FALSE
  /\ rLast = "zero"
  /\ rDiag = <<>>
  /\ nWritten = 0
  /\ ctxBy = "none"
  /\ rArgs = <<>>

\* A call about to start: any Timeout setting, with or without a sink.
RunInit ==
  /\ rpc = "entry"
  /\ rTimeout \in BOOLEAN
  /\ rSink \in BOOLEAN
  /\ runCtx = "nil"
  /\ proc = "none"
  /\ killSent = FALSE
  /\ pipesClosed = FALSE
  /\ drain = [d \in Drains |-> "none"]
  /\ nDrains = 0
  /\ nLines = 0
  /\ waitErr = "unset"
  /\ mapCtx = "nil"
  /\ rResult = "none"
  /\ rErr = "nil"
  /\ stderrBuf = <<>>
  /\ sinkErr = FALSE
  /\ rLast = "zero"
  /\ rDiag = <<>>
  /\ nWritten = 0
  /\ ctxBy = "none"
  /\ rArgs = <<>>

\* The guard of line 30 never taken: the call goes on whatever ensureReady
\* returned.
Unready_Never(err) == FALSE

\* Line 30: `err != nil`.
Unready(err) == err # "nil"

\* Lines 30-32: ensureReady fails and its error is returned, or lines 34-42
\* derive the run-scoped context.
RunEnsureReady ==
  /\ rpc = "entry"
  /\ \E err \in {"nil", "notfound", "cannotrun_exit", "timedout"} :
       /\ rErr' = err
       /\ IF Unready(err)
            THEN /\ rResult' = err
                 /\ rpc' = "returned"
            ELSE /\ rpc' = "start"
                 /\ UNCHANGED rResult
  /\ UNCHANGED <<rTimeout, rSink, runCtx, proc, killSent, pipesClosed, drain,
                 nDrains, nLines, waitErr, mapCtx>>
  /\ UNCHANGED <<stderrBuf, sinkErr, rLast, rDiag>>
  /\ UNCHANGED runEnv
  /\ UNCHANGED rArgs
  /\ UNCHANGED notRunVars

\* A run-scoped context that is never given a deadline.
HasDeadline_Never(timeoutSet) == FALSE

\* Lines 37-41: context.WithTimeout when Timeout > 0, WithCancel otherwise.
HasDeadline(timeoutSet) == timeoutSet

\* The run-scoped context ends before the call returns: its own deadline
\* (only when Timeout > 0, line 38: RunDeadline), or the caller's context,
\* which hands down its own error (RunParentDone).  The sink's abort
\* (line 127) is RunScanLine's.
RunDeadline ==
  /\ rpc \in {"start", "goStderr", "goStdout", "wait", "wgwait", "map"}
  /\ runCtx = "nil"
  /\ HasDeadline(rTimeout)
  /\ runCtx' = "DeadlineExceeded"
  /\ ctxBy' = "deadline"
  /\ UNCHANGED <<rpc, rTimeout, rSink, proc, killSent, pipesClosed, drain,
                 nDrains, nLines, waitErr, mapCtx, rResult>>
  /\ UNCHANGED runData
  /\ UNCHANGED nWritten
  /\ UNCHANGED notRunVars

RunParentDone ==
  /\ rpc \in {"start", "goStderr", "goStdout", "wait", "wgwait", "map"}
  /\ runCtx = "nil"
  /\ runCtx' \in {"DeadlineExceeded", "Canceled"}
  /\ ctxBy' = "caller"
  /\ UNCHANGED <<rpc, rTimeout, rSink, proc, killSent, pipesClosed, drain,
                 nDrains, nLines, waitErr, mapCtx, rResult>>
  /\ UNCHANGED runData
  /\ UNCHANGED nWritten
  /\ UNCHANGED notRunVars

RunCtxDone == RunDeadline \/ RunParentDone

\* Lines 54-67: the pipes are made and the subprocess started; a failure of
\* either returns before any goroutine is launched.  Start refuses a
\* context that is already done.
RunStart ==
  /\ rpc = "start"
  /\ \E out \in (IF runCtx = "nil" THEN {"ok"} ELSE {}) \cup {"pipeErr", "startErr"} :
       IF out = "ok"
         THEN /\ proc' = "running"
              /\ rpc' = "goStderr"
              /\ UNCHANGED <<rResult, runCtx>>
         ELSE /\ rResult' = out
              /\ rpc' = "returned"
              /\ runCtx' = IF runCtx = "nil" THEN "Canceled" ELSE runCtx
              /\ UNCHANGED proc
  /\ ctxBy' = IF runCtx' # runCtx THEN "return" ELSE ctxBy
  /\ rArgs' = RunArgs(heap, cargs, rSink)
  /\ UNCHANGED <<rTimeout, rSink, killSent, pipesClosed, drain, nDrains,
                 nLines, waitErr, mapCtx>>
  /\ UNCHANGED <<rErr, stderrBuf, sinkErr, rLast, rDiag>>
  /\ UNCHANGED nWritten
  /\ UNCHANGED notRunVars

\* Lines 69-75: wg.Add(1); go io.Copy(&stderrBuf, stderr).
RunGoStderr ==
  /\ rpc = "goStderr"
  /\ drain' = [drain EXCEPT !["stderr"] = "running"]
  /\ nDrains' = nDrains + 1
  /\ rpc' = "goStdout"
  /\ UNCHANGED <<rTimeout, rSink, runCtx, proc, killSent, pipesClosed, nLines,
                 waitErr, mapCtx, rResult>>
  /\ UNCHANGED runData
  /\ UNCHANGED runEnv
  /\ UNCHANGED notRunVars

\* Lines 77-91: wg.Add(1); go scanProgress(...) or go io.Copy(io.Discard, stdout).
RunGoStdout ==
  /\ rpc = "goStdout"
  /\ drain' = [drain EXCEPT !["stdout"] = "running"]
  /\ nDrains' = nDrains + 1
  /\ rpc' = "wait"
  /\ UNCHANGED <<rTimeout, rSink, runCtx, proc, killSent, pipesClosed, nLines,
                 waitErr, mapCtx, rResult>>
  /\ UNCHANGED runData
  /\ UNCHANGED runEnv
  /\ UNCHANGED notRunVars

\* The subprocess exits by itself, with status 0 or not.
ProcExit ==
  /\ proc = "running"
  /\ proc' \in {"exited0", "exitedN"}
  /\ UNCHANGED <<rpc, rTimeout, rSink, runCtx, killSent, pipesClosed, drain,
                 nDrains, nLines, waitErr, mapCtx, rResult>>
  /\ UNCHANGED runData
  /\ UNCHANGED runEnv
  /\ UNCHANGED notRunVars

\* The subprocess writes a progress line to its stdout; the pipe holds it
\* until it is read.
ProcWriteLine ==
  /\ proc = "running"
  /\ nWritten < MaxLines
  /\ nWritten' = nWritten + 1
  /\ UNCHANGED <<rpc, rTimeout, rSink, runCtx, proc, killSent, pipesClosed,
                 drain, nDrains, nLines, waitErr, mapCtx, rResult>>
  /\ UNCHANGED runData
  /\ UNCHANGED ctxBy
  /\ UNCHANGED notRunVars

\* The subprocess goes on writing to a pipe whose reader has ended
\* (scanProgress returned, lines 128 and 132) until the pipe is full: its
\* write blocks, and it cannot exit by itself.
ProcBlock ==
  /\ proc = "running"
  /\ \E d \in Drains : drain[d] = "done"
  /\ proc' = "blocked"
  /\ UNCHANGED <<rpc, rTimeout, rSink, runCtx, killSent, pipesClosed, drain,
                 nDrains, nLines, waitErr, mapCtx, rResult>>
  /\ UNCHANGED runData
  /\ UNCHANGED runEnv
  /\ UNCHANGED notRunVars

\* A watcher that never kills.
KillOnDone_Never(cerr) == FALSE

\* exec.CommandContext (line 54): the watcher acts when the context is done.
KillOnDone(cerr) == cerr # "nil"

\* exec.CommandContext: once the context is done the watcher kills the
\* subprocess.  Kill also succeeds on a subprocess that has exited and has
\* not been reaped yet.
ProcKill ==
  /\ KillOnDone(runCtx)
  /\ proc \in {"running", "blocked", "exited0", "exitedN"}
  /\ waitErr = "unset"
  /\ ~killSent
  /\ killSent' = TRUE
  /\ proc' = IF proc \in {"running", "blocked"} THEN "killed" ELSE proc
  /\ UNCHANGED <<rpc, rTimeout, rSink, runCtx, pipesClosed, drain, nDrains,
                 nLines, waitErr, mapCtx, rResult>>
  /\ UNCHANGED runData
  /\ UNCHANGED runEnv
  /\ UNCHANGED notRunVars

\* A read of a pipe returns for good: the write end is gone (the subprocess
\* has ended) or Wait has closed the read end.
PipeEnded == proc \notin {"running", "blocked"} \/ pipesClosed

\* The stderr drain (line 74): io.Copy appends what the subprocess wrote to
\* stderrBuf, a bytes.Buffer that grows as needed.
RunCopyStderr ==
  /\ drain["stderr"] = "running"
  /\ ~pipesClosed
  /\ Len(stderrBuf) < MaxStderr
  /\ \E b \in StderrBytes : stderrBuf' = Append(stderrBuf, b)
  /\ UNCHANGED <<rpc, rTimeout, rSink, runCtx, proc, killSent, pipesClosed,
                 drain, nDrains, nLines, waitErr, mapCtx, rResult>>
  /\ UNCHANGED <<rErr, sinkErr, rLast, rDiag>>
  /\ UNCHANGED runEnv
  /\ UNCHANGED rArgs
  /\ UNCHANGED notRunVars

\* The stderr drain (line 74): io.Copy returns when the pipe ends.
DrainStderrEnd ==
  /\ drain["stderr"] = "running"
  /\ PipeEnded
  /\ drain' = [drain EXCEPT !["stderr"] = "done"]
  /\ UNCHANGED <<rpc, rTimeout, rSink, runCtx, proc, killSent, pipesClosed,
                 nDrains, nLines, waitErr, mapCtx, rResult>>
  /\ UNCHANGED runData
  /\ UNCHANGED runEnv
  /\ UNCHANGED notRunVars

\* scanProgress, lines 120-133: one line is read, folded, stored in *last
\* and handed to the sink.  The drain ends when the sink returns an error
\* (after cancel()) or when the line was progress=end; otherwise it goes on
\* reading.
RunScanLine ==
  /\ rSink
  /\ drain["stdout"] = "running"
  /\ ~pipesClosed
  /\ nLines < nWritten
  /\ nLines' = nLines + 1
  /\ \E isEnd \in BOOLEAN, cbErr \in BOOLEAN :
       /\ rLast' = IF isEnd THEN "done" ELSE "set"
       /\ sinkErr' = cbErr
       /\ drain' = [drain EXCEPT !["stdout"] =
                      IF cbErr \/ isEnd THEN "done" ELSE "running"]
       /\ runCtx' = IF cbErr /\ runCtx = "nil" THEN "Canceled" ELSE runCtx
       /\ ctxBy' = IF cbErr /\ runCtx = "nil" THEN "sink" ELSE ctxBy
  /\ UNCHANGED <<rpc, rTimeout, rSink, proc, killSent, pipesClosed, nDrains,
                 waitErr, mapCtx, rResult>>
  /\ UNCHANGED <<rErr, stderrBuf, rDiag>>
  /\ UNCHANGED nWritten
  /\ UNCHANGED rArgs
  /\ UNCHANGED notRunVars

\* The stdout drain ends with the pipe: sc.Scan() returns false (line 120),
\* or io.Copy(io.Discard, stdout) returns (line 89).  The read fails once
\* Wait has closed the pipe; the end of the stream is seen only after every
\* line written has been read.
DrainStdoutEnd ==
  /\ drain["stdout"] = "running"
  /\ \/ pipesClosed
     \/ PipeEnded /\ (rSink => nLines = nWritten)
  /\ drain' = [drain EXCEPT !["stdout"] = "done"]
  /\ UNCHANGED <<rpc, rTimeout, rSink, runCtx, proc, killSent, pipesClosed,
                 nDrains, nLines, waitErr, mapCtx, rResult>>
  /\ UNCHANGED runData
  /\ UNCHANGED runEnv
  /\ UNCHANGED notRunVars

\* What execCmd.Wait (line 93) can return for an ended subprocess: an
\* *exec.ExitError for a non-zero exit or a kill; for a zero exit nil, or
\* the context's error when the watcher had delivered its kill; and, in any
\* case, the error of a failed wait system call ("other").
WaitOutcomes(p, sent) ==
  {"other"} \cup
  (IF p \in {"exitedN", "killed"} THEN {"ExitError"}
   ELSE IF sent THEN {"nil", "other"}
   ELSE {"nil"})

\* Line 93: Wait returns once the subprocess has ended, and closes the pipes.
RunWait ==
  /\ rpc = "wait"
  /\ proc \in {"exited0", "exitedN", "killed"}
  /\ waitErr' \in WaitOutcomes(proc, killSent)
  /\ pipesClosed' = TRUE
  /\ rpc' = "wgwait"
  /\ UNCHANGED <<rTimeout, rSink, runCtx, proc, killSent, drain, nDrains,
                 nLines, mapCtx, rResult>>
  /\ UNCHANGED runData
  /\ UNCHANGED runEnv
  /\ UNCHANGED notRunVars

\* wg.Wait() returns mutant: it does not wait for the drains.
WgWaitReturns_NoJoin(d) == TRUE

\* Line 94: wg.Wait() returns when every drain has called wg.Done().
WgWaitReturns(d) == \A x \in Drains : d[x] = "done"

RunWgWait ==
  /\ rpc = "wgwait"
  /\ WgWaitReturns(drain)
  /\ rpc' = "map"
  /\ UNCHANGED <<rTimeout, rSink, runCtx, proc, killSent, pipesClosed, drain,
                 nDrains, nLines, waitErr, mapCtx, rResult>>
  /\ UNCHANGED runData
  /\ UNCHANGED runEnv
  /\ UNCHANGED notRunVars

\* Outcome mapping mutant: the deadline is looked at before the wait result.
Outcome_DeadlineFirst(werr, cerr) ==
  IF cerr = "DeadlineExceeded" THEN "timeout"
  ELSE IF werr = "nil" THEN "ok"
  ELSE IF werr = "ExitError" THEN "failed"
  ELSE "execErr"

\* Lines 96-112: the error RunWithProgress returns for a wait result and
\* the run-scoped context's error.
Outcome(werr, cerr) ==
  IF werr # "nil"
    THEN IF cerr = "DeadlineExceeded" THEN "timeout"
         ELSE IF werr = "ExitError" THEN "failed"
         ELSE "execErr"
    ELSE "ok"

\* Lines 96-112, then the deferred cancel() of line 42.
RunReturn ==
  /\ rpc = "map"
  /\ rResult' = Outcome(waitErr, runCtx)
  /\ rDiag' = IF waitErr # "nil" THEN trimSpace(stderrBuf) ELSE <<>>
  /\ mapCtx' = runCtx
  /\ runCtx' = IF runCtx = "nil" THEN "Canceled" ELSE runCtx
  /\ ctxBy' = IF runCtx = "nil" THEN "return" ELSE ctxBy
  /\ rpc' = "returned"
  /\ UNCHANGED <<rTimeout, rSink, proc, killSent, pipesClosed, drain, nDrains,
                 nLines, waitErr>>
  /\ UNCHANGED <<rErr, stderrBuf, sinkErr, rLast>>
  /\ UNCHANGED nWritten
  /\ UNCHANGED rArgs
  /\ UNCHANGED notRunVars

NextRun ==
  \/ RunEnsureReady
  \/ RunCtxDone
  \/ RunStart
  \/ RunGoStderr
  \/ RunGoStdout
  \/ ProcExit
  \/ ProcWriteLine
  \/ ProcBlock
  \/ ProcKill
  \/ RunCopyStderr
  \/ DrainStderrEnd
  \/ RunScanLine
  \/ DrainStdoutEnd
  \/ RunWait
  \/ RunWgWait
  \/ RunReturn
--------------------------------------------------------------------------
(* The demo server's job hub: FFJob.subscribe / unsubscribe / broadcast   *)
(* (main.go:145-175), the job goroutine of POST /ffmpeg/start             *)
(* (main.go:368-424) and the handler of GET /ffmpeg/events/:id            *)
(* (main.go:437-474).                                                     *)

StatusValues == {"created", "running", "done", "error"}

\* len() of the status strings: a string is a (pointer, length) pair, and
\* two of them differ visibly in a torn read only when the lengths differ.
StrLen(v) ==
  IF v = "done" THEN 4 ELSE IF v = "error" THEN 5 ELSE 7

Ev(name, data) == [Event |-> name, Data |-> data]

NoEv == Ev("none", "")

\* The events that end a subscriber's stream (main.go:469).
IsTerminal(ev) == ev.Event \in {"done", "fferror"}

\* The variables of a job that does not exist.
JobIdle ==
  /\ jobStatus = "created"
  /\ statusWr = "none"
  /\ jpc = "none"
  /\ lineBudget = 0
  /\ nProgress = 0
  /\ subs = {}
  /\ chan = [s \in Subs |-> <<>>]
  /\ chClosed = [s \in Subs |-> FALSE]
  /\ hpc = [s \in Subs |-> "idle"]
  /\ shown = [s \in Subs |-> <<>>]
  /\ bcast = <<>>
  /\ subAt = [s \in Subs |-> 0]
  /\ everFull = [s \in Subs |-> FALSE]
  /\ lastDeliv = [s \in Subs |-> NoEv]
  /\ endSubs = {}
  /\ subStatus = [s \in Subs |-> "created"]

\* main.go:355-368: the job is built with Status "created", put in the
\* store, and its goroutine is launched.
JobInit(budget) ==
  /\ jobStatus = "created"
  /\ statusWr = "none"
  /\ jpc = "wRunning"
  /\ lineBudget = budget
  /\ nProgress = 0
  /\ subs = {}
  /\ chan = [s \in Subs |-> <<>>]
  /\ chClosed = [s \in Subs |-> FALSE]
  /\ hpc = [s \in Subs |-> "idle"]
  /\ shown = [s \in Subs |-> <<>>]
  /\ bcast = <<>>
  /\ subAt = [s \in Subs |-> 0]
  /\ everFull = [s \in Subs |-> FALSE]
  /\ lastDeliv = [s \in Subs |-> NoEv]
  /\ endSubs = {}
  /\ subStatus = [s \in Subs |-> "created"]

\* broadcast mutant: a plain (blocking) send, which is ready only when no
\* registered channel is full.
SendReady_Blocking(ch, ss) == \A s \in ss : Len(ch[s]) < ChanCap

\* main.go:168-172: a select with a default branch never waits.
SendReady(ch, ss) == TRUE

\* A broadcast whose send puts the event in front of what the channel
\* holds: a channel that is not first-in first-out.
Broadcast_Prepend(ch, ss, ev) ==
  [s \in Subs |-> IF s \in ss /\ Len(ch[s]) < ChanCap
                    THEN <<ev>> \o ch[s] ELSE ch[s]]

\* FFJob.broadcast (main.go:165-175): under j.mu, every registered channel
\* with room gets the event; a full one is skipped.
Broadcast(ch, ss, ev) ==
  [s \in Subs |-> IF s \in ss /\ Len(ch[s]) < ChanCap
                    THEN Append(ch[s], ev) ELSE ch[s]]

\* One call of job.broadcast(ev) by the job goroutine, with its history.
DoBroadcast(ev) ==
  /\ SendReady(chan, subs)
  /\ chan' = Broadcast(chan, subs, ev)
  /\ bcast' = Append(bcast, ev)
  /\ everFull' = [s \in Subs |->
        everFull[s] \/ (s \in subs /\ Len(chan[s]) >= ChanCap)]
  /\ lastDeliv' = [s \in Subs |->
        IF Len(chan'[s]) > Len(chan[s]) THEN ev ELSE lastDeliv[s]]
  /\ endSubs' = IF IsTerminal(ev) THEN subs ELSE endSubs

\* The job goroutine's assignments to job.Status: lines 381, 410, 417.
WritePcs == {"wRunning", "wError", "wDone"}

StatusWritten(pc) ==
  IF pc = "wRunning" THEN "running"
  ELSE IF pc = "wError" THEN "error"
  ELSE "done"

\* After a status write with the broadcast of lines 382, 412, 418 missing.
AfterWrite_SkipBroadcast(pc) ==
  IF pc = "wRunning" THEN "run"
  ELSE IF pc = "wError" THEN "bFferror"
  ELSE "bDone"

AfterWrite(pc) ==
  IF pc = "wRunning" THEN "bRunning"
  ELSE IF pc = "wError" THEN "bStatusError"
  ELSE "bStatusDone"

\* The job goroutine's broadcasts outside the sink: lines 382, 412, 413,
\* 418, 423.
BroadcastPcs == {"bRunning", "bStatusError", "bFferror", "bStatusDone", "bDone"}

EventAt(pc) ==
  IF pc = "bRunning" THEN Ev("status", "running")
  ELSE IF pc = "bStatusError" THEN Ev("status", "error")
  ELSE IF pc = "bFferror" THEN Ev("fferror", "ErrText")
  ELSE IF pc = "bStatusDone" THEN Ev("status", "done")
  ELSE Ev("done", "download")

\* After the error branch mutant: the `return` of line 414 is missing.
AfterBroadcast_NoReturn(pc) ==
  IF pc = "bRunning" THEN "run"
  ELSE IF pc = "bStatusError" THEN "bFferror"
  ELSE IF pc = "bFferror" THEN "wDone"
  ELSE IF pc = "bStatusDone" THEN "bDone"
  ELSE "defer"

\* After the error branch mutant: line 413 is missing, the error text is
\* never sent.
AfterBroadcast_SkipFferror(pc) ==
  IF pc = "bRunning" THEN "run"
  ELSE IF pc = "bStatusError" THEN "defer"
  ELSE IF pc = "bFferror" THEN "defer"
  ELSE IF pc = "bStatusDone" THEN "bDone"
  ELSE "defer"

\* Where the goroutine goes after each broadcast; line 414 returns.
AfterBroadcast(pc) ==
  IF pc = "bRunning" THEN "run"
  ELSE IF pc = "bStatusError" THEN "bFferror"
  ELSE IF pc = "bFferror" THEN "defer"
  ELSE IF pc = "bStatusDone" THEN "bDone"
  ELSE "defer"

\* An assignment to job.Status starts.  The field is written without j.mu,
\* and a string is stored in two words.
JobWriteBegin ==
  /\ jpc \in WritePcs
  /\ statusWr = "none"
  /\ statusWr' = StatusWritten(jpc)
  /\ UNCHANGED <<jobStatus, jpc, lineBudget, nProgress, subs, chan, chClosed,
                 hpc, shown, bcast, subAt, everFull, lastDeliv, endSubs,
                 subStatus>>
  /\ UNCHANGED notJobVars

\* The assignment is complete.
JobWriteEnd ==
  /\ jpc \in WritePcs
  /\ statusWr # "none"
  /\ jobStatus' = statusWr
  /\ statusWr' = "none"
  /\ jpc' = AfterWrite(jpc)
  /\ UNCHANGED <<lineBudget, nProgress, subs, chan, chClosed, hpc, shown,
                 bcast, subAt, everFull, lastDeliv, endSubs,
                 subStatus>>
  /\ UNCHANGED notJobVars

\* Lines 382, 412, 413, 418, 423.
JobBroadcast ==
  /\ jpc \in BroadcastPcs
  /\ DoBroadcast(EventAt(jpc))
  /\ jpc' = AfterBroadcast(jpc)
  /\ UNCHANGED <<jobStatus, statusWr, lineBudget, nProgress, subs, chClosed,
                 hpc, shown, subAt, subStatus>>
  /\ UNCHANGED notJobVars

\* Lines 398-407: RunWithProgress invokes the sink for a decoded line; the
\* sink broadcasts a progress event (its payload stands for the snapshot of
\* that line) and returns nil.
JobProgress ==
  /\ jpc = "run"
  /\ nProgress < lineBudget
  /\ nProgress' = nProgress + 1
  /\ DoBroadcast(Ev("progress", nProgress + 1))
  /\ UNCHANGED <<jobStatus, statusWr, jpc, lineBudget, subs, chClosed, hpc,
                 shown, subAt, subStatus>>
  /\ UNCHANGED notJobVars

\* Line 398: RunWithProgress returns, with an error or without; line 409.
JobRunReturns ==
  /\ jpc = "run"
  /\ \E runErr \in {"nil", "err"} :
       jpc' = IF runErr # "nil" THEN "wError" ELSE "wDone"
  /\ UNCHANGED <<jobStatus, statusWr, lineBudget, nProgress, subs, chan,
                 chClosed, hpc, shown, bcast, subAt, everFull, lastDeliv,
                 endSubs,
                 subStatus>>
  /\ UNCHANGED notJobVars

\* Lines 369-379: the deferred function arms the eviction timer
\* (time.AfterFunc, line 375); the goroutine ends.
JobDefer ==
  /\ jpc = "defer"
  /\ jpc' = "finished"
  /\ timer' = "armed"
  /\ nSched' = nSched + 1
  /\ UNCHANGED <<jobStatus, statusWr, lineBudget, nProgress, subs, chan,
                 chClosed, hpc, shown, bcast, subAt, everFull, lastDeliv,
                 endSubs,
                 subStatus>>
  /\ UNCHANGED <<jobs, artifact, nFired, dpc, did, dres, nReq>>
  /\ UNCHANGED <<toolVars, runVars, decodeVars, lockVars, sseVars, cmdVars>>

\* What a read of job.Status can return.  The handlers read the field
\* without j.mu (lines 459, 484): a read that overlaps a write returns the
\* old value, the new one, or one word of each, which is neither string
\* when their lengths differ.
ReadStatus ==
  IF statusWr = "none" THEN {jobStatus}
  ELSE {jobStatus, statusWr} \cup
       (IF StrLen(jobStatus) # StrLen(statusWr) THEN {"torn"} ELSE {})

\* Initial status mutant: the handler goes straight to its receive loop.
InitialEvents_None(v) == <<>>

\* Lines 458-460: what the handler writes before its receive loop, for the
\* value v it read from job.Status.
InitialEvents(v) == <<Ev("status", v)>>

\* Line 455: job.subscribe() makes the channel and registers it under j.mu.
HandlerSubscribe(s) ==
  /\ hpc[s] = "idle"
  /\ subs' = subs \cup {s}
  /\ subAt' = [subAt EXCEPT ![s] = Len(bcast)]
  /\ subStatus' = [subStatus EXCEPT ![s] = jobStatus]
  /\ hpc' = [hpc EXCEPT ![s] = "subscribed"]
  /\ UNCHANGED <<jobStatus, statusWr, jpc, lineBudget, nProgress, chan,
                 chClosed, shown, bcast, everFull, lastDeliv, endSubs>>
  /\ UNCHANGED notJobVars

\* Lines 459-460: writeSSE(c.Writer, "status", job.Status).
HandlerWriteStatus(s) ==
  /\ hpc[s] = "subscribed"
  /\ \E v \in ReadStatus :
       shown' = [shown EXCEPT ![s] = @ \o InitialEvents(v)]
  /\ hpc' = [hpc EXCEPT ![s] = "streaming"]
  /\ UNCHANGED <<jobStatus, statusWr, jpc, lineBudget, nProgress, subs, chan,
                 chClosed, bcast, subAt, everFull, lastDeliv, endSubs,
                 subStatus>>
  /\ UNCHANGED notJobVars

\* Lines 466-471: an event is received and written; done and fferror end
\* the loop.
HandlerRecv(s) ==
  /\ hpc[s] = "streaming"
  /\ chan[s] # <<>>
  /\ shown' = [shown EXCEPT ![s] = Append(@, Head(chan[s]))]
  /\ chan' = [chan EXCEPT ![s] = Tail(@)]
  /\ hpc' = [hpc EXCEPT ![s] =
        IF IsTerminal(Head(chan[s])) THEN "unsub" ELSE "streaming"]
  /\ UNCHANGED <<jobStatus, statusWr, jpc, lineBudget, nProgress, subs,
                 chClosed, bcast, subAt, everFull, lastDeliv, endSubs,
                 subStatus>>
  /\ UNCHANGED notJobVars

\* Lines 464-465: the client is gone.
\* The handler returning on a closed connection with no deferred
\* unsubscribe.
HandlerCtxDone_NoDefer(s) ==
  /\ hpc[s] = "streaming"
  /\ hpc' = [hpc EXCEPT ![s] = "returned"]
  /\ UNCHANGED <<jobStatus, statusWr, jpc, lineBudget, nProgress, subs, chan,
                 chClosed, shown, bcast, subAt, everFull, lastDeliv, endSubs,
                 subStatus>>
  /\ UNCHANGED notJobVars

HandlerCtxDone(s) ==
  /\ hpc[s] = "streaming"
  /\ hpc' = [hpc EXCEPT ![s] = "unsub"]
  /\ UNCHANGED <<jobStatus, statusWr, jpc, lineBudget, nProgress, subs, chan,
                 chClosed, shown, bcast, subAt, everFull, lastDeliv, endSubs,
                 subStatus>>
  /\ UNCHANGED notJobVars

\* FFJob.unsubscribe, lines 157-161: the channel is removed under j.mu.
\* unsubscribe without the delete of line 159.
HandlerUnsubscribe_NoDelete(s) ==
  /\ hpc[s] = "unsub"
  /\ hpc' = [hpc EXCEPT ![s] = "closing"]
  /\ UNCHANGED <<jobStatus, statusWr, jpc, lineBudget, nProgress, subs, chan,
                 chClosed, shown, bcast, subAt, everFull, lastDeliv, endSubs,
                 subStatus>>
  /\ UNCHANGED notJobVars

HandlerUnsubscribe(s) ==
  /\ hpc[s] = "unsub"
  /\ subs' = subs \ {s}
  /\ hpc' = [hpc EXCEPT ![s] = "closing"]
  /\ UNCHANGED <<jobStatus, statusWr, jpc, lineBudget, nProgress, chan,
                 chClosed, shown, bcast, subAt, everFull, lastDeliv, endSubs,
                 subStatus>>
  /\ UNCHANGED notJobVars

\* FFJob.unsubscribe, line 162: close(ch); the handler returns.
HandlerClose(s) ==
  /\ hpc[s] = "closing"
  /\ chClosed' = [chClosed EXCEPT ![s] = TRUE]
  /\ hpc' = [hpc EXCEPT ![s] = "returned"]
  /\ UNCHANGED <<jobStatus, statusWr, jpc, lineBudget, nProgress, subs, chan,
                 shown, bcast, subAt, everFull, lastDeliv, endSubs,
                 subStatus>>
  /\ UNCHANGED notJobVars

JobSteps ==
  \/ JobWriteBegin
  \/ JobWriteEnd
  \/ JobBroadcast
  \/ JobProgress
  \/ JobRunReturns
  \/ JobDefer

NextJob ==
  \/ JobSteps
  \/ \E s \in Subs :
       \/ HandlerSubscribe(s)
       \/ HandlerWriteStatus(s)
       \/ HandlerRecv(s)
       \/ HandlerCtxDone(s)
       \/ HandlerUnsubscribe(s)
       \/ HandlerClose(s)

--------------------------------------------------------------------------
(* The JobStore (main.go:111-137), the eviction scheduled by the job      *)
(* goroutine's deferred function (main.go:375-378) and the handler of     *)
(* GET /ffmpeg/download/:id (main.go:477-490).                            *)

\* The id newID() gave the job, and an id no job has.
JobId == "j1"
RequestIds == {JobId, "other"}

\* JobStore.Put, Get and Delete on the set of stored ids.
Put(js, id) == js \cup {id}
Get(js, id) == id \in js
Delete_Noop(js, id) == js
Delete(js, id) == js \ {id}

\* No job has been created.
StoreIdle ==
  /\ jobs = {}
  /\ artifact = FALSE
  /\ timer = "none"
  /\ nSched = 0
  /\ nFired = 0
  /\ dpc = "idle"
  /\ did = JobId
  /\ dres = "none"
  /\ nReq = 0

\* main.go:345-365: os.CreateTemp has made the output file and jobs.Put
\* has stored the job.
StoreInit ==
  /\ jobs = Put({}, JobId)
  /\ artifact = TRUE
  /\ timer = "none"
  /\ nSched = 0
  /\ nFired = 0
  /\ dpc = "idle"
  /\ did = JobId
  /\ dres = "none"
  /\ nReq = 0

\* Line 376: the timer fires and its function removes the output file.
EvictRemove ==
  /\ timer = "armed"
  /\ timer' = "removing"
  /\ artifact' = FALSE
  /\ nFired' = nFired + 1
  /\ UNCHANGED <<jobs, nSched, dpc, did, dres, nReq>>
  /\ UNCHANGED notStoreVars

\* Line 377: jobs.Delete(job.ID).
EvictDelete ==
  /\ timer = "removing"
  /\ timer' = "fired"
  /\ jobs' = Delete(jobs, JobId)
  /\ UNCHANGED <<artifact, nSched, nFired, dpc, did, dres, nReq>>
  /\ UNCHANGED notStoreVars

\* Lines 478-483: a download request looks its id up in the store.
DownloadGet ==
  /\ dpc = "idle"
  /\ nReq < MaxRequests
  /\ nReq' = nReq + 1
  /\ \E id \in RequestIds :
       /\ did' = id
       /\ IF Get(jobs, id)
            THEN /\ dpc' = "check"
                 /\ dres' = "none"
            ELSE /\ dpc' = "idle"
                 /\ dres' = "notfound"
  /\ UNCHANGED <<jobs, artifact, timer, nSched, nFired>>
  /\ UNCHANGED notStoreVars

\* Line 484 with a status that lets every request through.
Servable_Any(v) == TRUE

\* Line 484: `job.Status != "done"` refuses the request.
Servable(v) == v = "done"

\* Lines 484-487: the status is read (without j.mu) and tested.
DownloadCheck ==
  /\ dpc = "check"
  /\ \E v \in ReadStatus :
       IF Servable(v)
         THEN /\ dpc' = "serve"
              /\ UNCHANGED dres
         ELSE /\ dpc' = "idle"
              /\ dres' = "notdone"
  /\ UNCHANGED <<jobs, artifact, timer, nSched, nFired, did, nReq>>
  /\ UNCHANGED notStoreVars

\* Lines 488-489: c.File(job.OutputPath) sends the file, or a 404 when it
\* is no longer there.
DownloadServe ==
  /\ dpc = "serve"
  /\ dres' = IF artifact THEN "file" ELSE "nofile"
  /\ dpc' = "idle"
  /\ UNCHANGED <<jobs, artifact, timer, nSched, nFired, did, nReq>>
  /\ UNCHANGED notStoreVars

NextStore ==
  \/ JobSteps
  \/ EvictRemove
  \/ EvictDelete
  \/ DownloadGet
  \/ DownloadCheck
  \/ DownloadServe

--------------------------------------------------------------------------
(* The progress decode: FFmpegProgress.applyKV and parseProgressLine      *)
(* (src/unnamed/part_000:8-62) and scanProgress (run.go:115-135).         *)
(* A line is a sequence of bytes; the key words of the protocol and the   *)
(* words "end" and "continue" stand for their bytes as one element each.  *)

Digits == {"0", "1", "2"}

DigitVal(d) == IF d = "0" THEN 0 ELSE IF d = "1" THEN 1 ELSE 2

AllDigits(s) == \A i \in 1..Len(s) : s[i] \in Digits

\* The value of a string of decimal digits.
RECURSIVE DecVal(_)
DecVal(s) ==
  IF s = <<>> THEN 0
  ELSE DecVal(SubSeq(s, 1, Len(s) - 1)) * 10 + DigitVal(s[Len(s)])

\* strings.IndexByte: the index (from 0) of the first b in s, or -1.
IndexByte(s, b) ==
  LET hits == {i \in 1..Len(s) : s[i] = b}
  IN IF hits = {} THEN -1
     ELSE (CHOOSE i \in hits : \A j \in hits : i <= j) - 1

\* strconv.Atoi(v) and strconv.ParseInt(v, 10, 64): an optional sign and at
\* least one digit, nothing else; n is 0 when the syntax is wrong.
Atoi(v) ==
  LET signed == v # <<>> /\ v[1] \in {"-", "+"}
      body == IF signed THEN Tail(v) ELSE v
  IN IF body # <<>> /\ AllDigits(body)
       THEN [ok |-> TRUE,
             n |-> IF v[1] = "-" THEN 0 - DecVal(body) ELSE DecVal(body)]
       ELSE [ok |-> FALSE, n |-> 0]

\* A float64 of the model: sign, integer part, fraction digits without
\* trailing zeros.
ZeroFloat == [neg |-> FALSE, int |-> 0, frac |-> <<>>]

RECURSIVE StripZeros(_)
StripZeros(s) ==
  IF s # <<>> /\ s[Len(s)] = "0" THEN StripZeros(SubSeq(s, 1, Len(s) - 1))
  ELSE s

\* strconv.ParseFloat(v, 64) on the bytes of the model: an optional sign,
\* digits with at most one point and at least one digit.
ParseFloat(v) ==
  LET signed == v # <<>> /\ v[1] \in {"-", "+"}
      body == IF signed THEN Tail(v) ELSE v
      dot == IndexByte(body, ".")
      ip == IF dot < 0 THEN body ELSE SubSeq(body, 1, dot)
      fp == IF dot < 0 THEN <<>> ELSE SubSeq(body, dot + 2, Len(body))
  IN IF AllDigits(ip) /\ AllDigits(fp) /\ (ip # <<>> \/ fp # <<>>)
       THEN [ok |-> TRUE,
             f |-> [neg |-> (v[1] = "-"), int |-> DecVal(ip),
                    frac |-> StripZeros(fp)]]
       ELSE [ok |-> FALSE, f |-> ZeroFloat]

\* A nil map[string]string, and m[k] = v.
NilMap == [k \in {} |-> <<>>]

MapSet(m, k, v) ==
  [x \in DOMAIN m \cup {k} |-> IF x = k THEN v ELSE m[x]]

\* The zero FFmpegProgress (part_000:8-20).
ZeroProgress ==
  [Frame |-> 0, FPS |-> ZeroFloat, Bitrate |-> <<>>, Speed |-> <<>>,
   OutTimeMs |-> 0, Done |-> FALSE, Extra |-> NilMap]

\* applyKV storing what the parser returned whether it failed or not.
applyKV_ZeroOnError(p, k, v) ==
  IF k = <<"frame">> THEN [p EXCEPT !.Frame = Atoi(v).n]
  ELSE IF k = <<"fps">> THEN [p EXCEPT !.FPS = ParseFloat(v).f]
  ELSE IF k = <<"bitrate">> THEN [p EXCEPT !.Bitrate = v]
  ELSE IF k = <<"speed">> THEN [p EXCEPT !.Speed = v]
  ELSE IF k = <<"out_time_ms">> THEN [p EXCEPT !.OutTimeMs = Atoi(v).n]
  ELSE IF k = <<"progress">> THEN [p EXCEPT !.Done = (v = <<"end">>)]
  ELSE [p EXCEPT !.Extra = MapSet(p.Extra, k, v)]

\* FFmpegProgress.applyKV (part_000:22-48).
applyKV(p, k, v) ==
  IF k = <<"frame">>
    THEN IF Atoi(v).ok THEN [p EXCEPT !.Frame = Atoi(v).n] ELSE p
  ELSE IF k = <<"fps">>
    THEN IF ParseFloat(v).ok THEN [p EXCEPT !.FPS = ParseFloat(v).f] ELSE p
  ELSE IF k = <<"bitrate">> THEN [p EXCEPT !.Bitrate = v]
  ELSE IF k = <<"speed">> THEN [p EXCEPT !.Speed = v]
  ELSE IF k = <<"out_time_ms">>
    THEN IF Atoi(v).ok THEN [p EXCEPT !.OutTimeMs = Atoi(v).n] ELSE p
  ELSE IF k = <<"progress">> THEN [p EXCEPT !.Done = (v = <<"end">>)]
  ELSE [p EXCEPT !.Extra = MapSet(p.Extra, k, v)]

\* parseProgressLine with `i < 0` for `i <= 0`: an empty key is folded.
parseProgressLine_EmptyKey(line, p) ==
  LET t == TrimSpace(line)
      i == IndexByte(t, "=")
  IN IF t = <<>> THEN p
     ELSE IF i < 0 THEN p
     ELSE applyKV(p, SubSeq(t, 1, i), SubSeq(t, i + 2, Len(t)))

\* parseProgressLine (part_000:50-62).
parseProgressLine(line, p) ==
  LET t == TrimSpace(line)
      i == IndexByte(t, "=")
  IN IF t = <<>> THEN p
     ELSE IF i <= 0 THEN p
     ELSE applyKV(p, SubSeq(t, 1, i), SubSeq(t, i + 2, Len(t)))

\* The lines a subprocess is made to write: blank ones, ones without a
\* separator or with an empty key, typed keys with good and bad values,
\* string keys, unknown keys, and the progress markers.
Lines ==
  { <<>>, <<" ">>, <<"k">>, <<"=", "1">>, <<" ", "=", "1">>,
    <<"frame", "=", "1", "2", "0">>, <<"frame", "=", "a">>, <<"frame", "=">>,
    <<" ", "frame", "=", "2", " ">>, <<"frame", "=", "1", ".", "2">>,
    <<"frame", " ", "=", "1">>,
    <<"fps", "=", "2", ".", "1">>, <<"fps", "=", "a">>,
    <<"fps", "=", "1", ".", "2", ".", "0">>,
    <<"out_time_ms", "=", "1", "0">>, <<"out_time_ms", "=", "-", "a">>,
    <<"bitrate", "=", "a">>, <<"speed", "=", "2", "a">>,
    <<"k", "=", "a", "=", "1">>,
    <<"progress", "=", "continue">>, <<"progress", "=", "end">>,
    <<"progress", "=", "end", " ">>, <<"progress", "=", "end", "a">> }

\* scanProgress is called with an empty snapshot (run.go:119) and the
\* caller's zero `last` (run.go:28).
DecodeInit ==
  /\ sp = ZeroProgress
  /\ slast = ZeroProgress
  /\ spc = "scan"
  /\ nScan = 0
  /\ curLine = <<>>
  /\ sunk = <<>>
  /\ cbRet = FALSE
  /\ endSeen = FALSE

\* The line is the end-of-stream marker.
IsEndLine(line) == TrimSpace(line) = <<"progress", "=", "end">>

\* A loop that goes on reading after progress=end.
ScanStops_Never(p) == FALSE

\* run.go:131-133: `if p.Done { return }`.
ScanStops(p) == p.Done

\* One turn of a loop that hands the snapshot to the sink only when the
\* line changed it.
ScanLine_SinkOnChange ==
  /\ spc = "scan"
  /\ nScan < MaxScan
  /\ nScan' = nScan + 1
  /\ \E line \in Lines, cbErr \in BOOLEAN :
       LET np == parseProgressLine(line, sp) IN
         /\ sp' = np
         /\ slast' = np
         /\ sunk' = IF np = sp THEN sunk ELSE Append(sunk, np)
         /\ curLine' = line
         /\ cbRet' = cbErr
         /\ endSeen' = (endSeen \/ IsEndLine(line))
         /\ spc' = IF cbErr \/ ScanStops(np) THEN "returned" ELSE "scan"
  /\ UNCHANGED notDecodeVars

\* run.go:120-133: one turn of the loop.  The line is folded into p, p is
\* copied to *last and handed to the sink; the loop ends when the sink
\* returns an error or p.Done is set.
ScanLine ==
  /\ spc = "scan"
  /\ nScan < MaxScan
  /\ nScan' = nScan + 1
  /\ \E line \in Lines, cbErr \in BOOLEAN :
       LET np == parseProgressLine(line, sp) IN
         /\ sp' = np
         /\ slast' = np
         /\ sunk' = Append(sunk, np)
         /\ curLine' = line
         /\ cbRet' = cbErr
         /\ endSeen' = (endSeen \/ IsEndLine(line))
         /\ spc' = IF cbErr \/ ScanStops(np) THEN "returned" ELSE "scan"
  /\ UNCHANGED notDecodeVars

\* A copy of p holds p's Extra map itself when p has one (a Go map value
\* is a reference): the one map of a scanProgress call is made by the
\* first unknown key (part_000:43-45) and every later `*last = p` and
\* `cb(p)` (run.go:123, 125) copies the reference.
SharesExtra(q) == q.Extra # NilMap

\* What the copy handed to the k-th sink invocation reads now.
HeldNow(k) ==
  IF SharesExtra(sunk[k]) THEN [sunk[k] EXCEPT !.Extra = sp.Extra]
  ELSE sunk[k]

\* run.go:120: sc.Scan() returns false, the stream has ended.
ScanEOF ==
  /\ spc = "scan"
  /\ spc' = "returned"
  /\ UNCHANGED <<sp, slast, nScan, curLine, sunk, cbRet, endSeen>>
  /\ UNCHANGED notDecodeVars

NextDecode ==
  \/ ScanLine
  \/ ScanEOF

--------------------------------------------------------------------------
(* The critical sections.  Each piece of code is the sequence of its lock, *)
(* unlock and other operations, in program order; an operation is marked  *)
(* as blocking when it can wait for another party.                        *)

Lk(m) == [k |-> "lock", mu |-> m, op |-> "lock", blocks |-> TRUE]
Ul(m) == [k |-> "unlock", mu |-> m, op |-> "unlock", blocks |-> FALSE]
Op(name, waits) == [k |-> "op", mu |-> "", op |-> name, blocks |-> waits]
NoOp == Op("none", FALSE)

\* FFJob.broadcast (main.go:165-175): the send is a select with a default
\* branch, made under j.mu.
broadcastCode(m) == <<Lk(m), Op("send", FALSE), Ul(m)>>

\* FFJob.subscribe (main.go:145-154).
subscribeCode(m) == <<Op("make", FALSE), Lk(m), Op("mapwrite", FALSE), Ul(m)>>

\* FFJob.unsubscribe (main.go:156-163).
unsubscribeCode(m) == <<Lk(m), Op("mapwrite", FALSE), Ul(m), Op("close", FALSE)>>

\* JobStore.Put / Get / Delete (main.go:120-137).
storeCode(m) == <<Lk(m), Op("mapaccess", FALSE), Ul(m)>>

\* ensureReady keeping t.mu from the gate to the store.
ensureReadyCode_Locked(m) ==
  <<Lk(m), Op("readchecked", FALSE),
    Op("lookpath", TRUE), Op("piperead", TRUE), Op("wait", TRUE),
    Op("store", FALSE), Ul(m)>>

\* FFmpegTool.ensureReady (part_000:96-157) on a fresh tool: the gate under
\* t.mu, LookPath and the -version run (cmd.Run reads the pipes and waits)
\* outside it, the store under t.mu.
ensureReadyCode(m) ==
  <<Lk(m), Op("readchecked", FALSE), Ul(m),
    Op("lookpath", TRUE), Op("piperead", TRUE), Op("wait", TRUE),
    Lk(m), Op("store", FALSE), Ul(m)>>

\* RunWithProgress (run.go:23-113), the calling goroutine: ensureReady, the
\* path read under t.mu, Start, Wait, wg.Wait.
runCode(m) ==
  ensureReadyCode(m) \o
  <<Lk(m), Op("readpath", FALSE), Ul(m), Op("start", FALSE), Op("wait", TRUE),
    Op("wgwait", TRUE)>>

\* The stdout drain (run.go:80-83, 115-135): a line is read, the demo's
\* sink broadcasts it (main.go:405), the next read ends the stream.
drainCode(m) ==
  <<Op("piperead", TRUE)>> \o broadcastCode(m) \o <<Op("piperead", TRUE)>>

Goroutines == {"job", "drain", "handler", "evict"}

\* The job goroutine (main.go:368-424), the stdout drain it starts, an
\* event-stream handler (main.go:437-474) and the eviction function
\* (main.go:375-378).
Code(g) ==
  IF g = "job"
    THEN broadcastCode("job") \o runCode("tool") \o broadcastCode("job")
         \o broadcastCode("job")
  ELSE IF g = "drain" THEN drainCode("job")
  ELSE IF g = "handler"
    THEN storeCode("store") \o subscribeCode("job") \o <<Op("recv", TRUE)>>
         \o unsubscribeCode("job")
  ELSE <<Op("remove", FALSE)>> \o storeCode("store")

LockInit ==
  /\ lpc = [g \in Goroutines |-> 1]
  /\ lheld = [g \in Goroutines |-> {}]
  /\ lop = [g \in Goroutines |-> NoOp]

\* The next step of g, when it has one.
AtStep(g, kind) == lpc[g] <= Len(Code(g)) /\ Code(g)[lpc[g]].k = kind

\* mu.Lock(): waits until no goroutine holds the mutex.
LockStep(g) ==
  /\ AtStep(g, "lock")
  /\ \A h \in Goroutines : Code(g)[lpc[g]].mu \notin lheld[h]
  /\ lheld' = [lheld EXCEPT ![g] = @ \cup {Code(g)[lpc[g]].mu}]
  /\ lop' = [lop EXCEPT ![g] = NoOp]
  /\ lpc' = [lpc EXCEPT ![g] = @ + 1]
  /\ UNCHANGED notLockVars

\* mu.Unlock().
UnlockStep(g) ==
  /\ AtStep(g, "unlock")
  /\ lheld' = [lheld EXCEPT ![g] = @ \ {Code(g)[lpc[g]].mu}]
  /\ lop' = [lop EXCEPT ![g] = NoOp]
  /\ lpc' = [lpc EXCEPT ![g] = @ + 1]
  /\ UNCHANGED notLockVars

\* Any other operation: g is executing it until its next step.
OpStep(g) ==
  /\ AtStep(g, "op")
  /\ lop' = [lop EXCEPT ![g] = Code(g)[lpc[g]]]
  /\ lpc' = [lpc EXCEPT ![g] = @ + 1]
  /\ UNCHANGED lheld
  /\ UNCHANGED notLockVars

NextLock ==
  \E g \in Goroutines :
    \/ LockStep(g)
    \/ UnlockStep(g)
    \/ OpStep(g)

--------------------------------------------------------------------------
(* writeSSE (main.go:496-502).  A string is the sequence of its bytes; LF, *)
(* CR and BS stand for the newline, the carriage return and the backslash, *)
(* and the two literal field prefixes are one token each.                 *)

MaxData == 3

Chars == {"a", "n", "BS", "LF", "CR"}

DataStrings == UNION {[1..n -> Chars] : n \in 0..MaxData}

\* The event names of the handler's calls (main.go:459, 468).
EventNames == {"status", "progress", "done", "fferror"}

\* strings.ReplaceAll(str, old, new) for a one-byte old.
RECURSIVE ReplaceAll(_, _, _)
ReplaceAll(str, old, new) ==
  IF str = <<>> THEN <<>>
  ELSE IF Head(str) = old THEN new \o ReplaceAll(Tail(str), old, new)
  ELSE <<Head(str)>> \o ReplaceAll(Tail(str), old, new)

\* writeSSE writing the data as it is.
writeSSE_Raw(event, data) ==
  <<"event: ", event, "LF">> \o <<"data: ">> \o data \o <<"LF", "LF">>

\* Lines 497-498 rewrite the data, 499 and 500 print the two fields.
writeSSE(event, data) ==
  LET d1 == ReplaceAll(data, "CR", <<>>)
      d2 == ReplaceAll(d1, "LF", <<"BS", "n">>)
  IN <<"event: ", event, "LF">> \o <<"data: ">> \o d2 \o <<"LF", "LF">>

NoCall == [event |-> "none", data |-> <<>>]

SSEIdle ==
  /\ sseIn = NoCall
  /\ sseOut = <<>>

\* One call of writeSSE.
SSEWrite ==
  /\ sseIn = NoCall
  /\ \E event \in EventNames, data \in DataStrings :
       /\ sseIn' = [event |-> event, data |-> data]
       /\ sseOut' = writeSSE(event, data)
  /\ UNCHANGED notSSEVars

NextSSE == SSEWrite

--------------------------------------------------------------------------
(* FFmpegCommand's mutators (part_001:28-112) and the vectors made from   *)
(* a command.                                                             *)

MaxArgs == 6
MaxTokens == 4
MaxSnaps == 2

\* The loop of Overwrite(false) (part_001:47-53): the elements that are not
\* "-y", appended one by one to a new slice.
RECURSIVE DropY(_, _, _)
DropY(h, n, elems) ==
  IF elems = <<>> THEN [heap |-> h, sl |-> n]
  ELSE IF Head(elems) = "-y" THEN DropY(h, n, Tail(elems))
  ELSE LET r == GoAppend(h, n, <<Head(elems)>>)
       IN DropY(r.heap, r.sl, Tail(elems))

\* The same elements, as a list.
RECURSIVE WithoutY(_)
WithoutY(elems) ==
  IF elems = <<>> THEN <<>>
  ELSE IF Head(elems) = "-y" THEN WithoutY(Tail(elems))
  ELSE <<Head(elems)>> \o WithoutY(Tail(elems))

DigitStr(d) ==
  CASE d = 0 -> "0" [] d = 1 -> "1" [] d = 2 -> "2" [] d = 3 -> "3"
    [] d = 4 -> "4" [] d = 5 -> "5" [] d = 6 -> "6" [] d = 7 -> "7"
    [] d = 8 -> "8" [] OTHER -> "9"

\* itoa (part_000:190): strconv.Itoa.
RECURSIVE itoa(_)
itoa(i) ==
  IF i < 0 THEN "-" \o itoa(0 - i)
  ELSE IF i < 10 THEN DigitStr(i)
  ELSE itoa(i \div 10) \o DigitStr(i % 10)

\* strings.TrimRight(str, cutset) on a sequence of one-byte strings.
RECURSIVE TrimRightSet(_, _)
TrimRightSet(str, cutset) ==
  IF str # <<>> /\ str[Len(str)] \in cutset
    THEN TrimRightSet(SubSeq(str, 1, Len(str) - 1), cutset)
    ELSE str

RECURSIVE Join(_)
Join(str) == IF str = <<>> THEN "" ELSE Head(str) \o Join(Tail(str))

\* trimFloat (part_001:104-112) of ms thousandths of a second, ms >= 0:
\* "%.3f" prints the integer part, a point and three decimals.
trimFloat(ms) ==
  LET f == ms % 1000
      s0 == <<itoa(ms \div 1000), ".", DigitStr(f \div 100),
              DigitStr((f \div 10) % 10), DigitStr(f % 10)>>
      s1 == TrimRightSet(s0, {"0"})
      s2 == TrimRightSet(s1, {"."})
  IN IF Join(s2) = "" THEN "0" ELSE Join(s2)

\* The argument values of the mutator calls.
Values == {"-y", "in.mp4"}
IntValues == {0, 23}
Seconds == {0, 1500}

\* NewFFmpegCommand (part_001:12-15).
CmdNew ==
  /\ heap = <<<<"-y">>>>
  /\ cargs = [arr |-> 1, len |-> 1, cap |-> 1]
  /\ cghost = <<"-y">>
  /\ calls = <<>>
  /\ nMut = 0
  /\ snaps = <<>>

\* The command after k AppendArgs calls of one argument each.
RECURSIVE Built(_)
Built(k) ==
  IF k = 0 THEN [heap |-> <<<<"-y">>>>, sl |-> [arr |-> 1, len |-> 1, cap |-> 1]]
  ELSE LET b == Built(k - 1) IN AppendArgs(b.heap, b.sl, <<"a">>)

\* The commands a run is given: the fresh one (no spare capacity) and one
\* whose backing array has room for the three progress flags.
BuiltSizes == {0, 4}

CmdBuilt ==
  \E k \in BuiltSizes :
    /\ heap = Built(k).heap
    /\ cargs = Built(k).sl
    /\ cghost = Content(Built(k).heap, Built(k).sl)
    /\ calls = <<>>
    /\ nMut = k
    /\ snaps = <<>>

\* A mutator that ends in c.AppendArgs(toks...), on a list that stays
\* within max elements; pairs are the (flag, value) pairs it was given.
DoAppend(toks, pairs, max) ==
  /\ cargs.len + Len(toks) <= max
  /\ LET r == AppendArgs(heap, cargs, toks) IN
       /\ heap' = r.heap
       /\ cargs' = r.sl
  /\ cghost' = cghost \o toks
  /\ calls' = calls \o pairs
  /\ nMut' = nMut + 1
  /\ UNCHANGED snaps

FlagValue(flag, value) ==
  DoAppend(<<flag, value>>, <<<<flag, value>>>>, MaxTokens)

HideBanner ==
  /\ DoAppend(<<"-hide_banner">>, <<>>, MaxTokens)
  /\ UNCHANGED notCmdVars

LogLevel ==
  /\ \E level \in Values : FlagValue("-v", level)
  /\ UNCHANGED notCmdVars

Input ==
  /\ \E path \in Values : FlagValue("-i", path)
  /\ UNCHANGED notCmdVars

\* Overwrite (part_001:41-56).
Overwrite ==
  /\ cargs.len < MaxArgs
  /\ \E on \in BOOLEAN :
       IF on
         THEN UNCHANGED <<heap, cargs, cghost, nMut>>
         ELSE LET n == make(heap, 0, cargs.len)
                  d == DropY(n.heap, n.sl, Content(heap, cargs))
                  r == AppendArgs(d.heap, d.sl, <<"-n">>)
              IN /\ heap' = r.heap
                 /\ cargs' = r.sl
                 /\ cghost' = WithoutY(cghost) \o <<"-n">>
                 /\ nMut' = nMut + 1
  /\ UNCHANGED <<calls, snaps>>
  /\ UNCHANGED notCmdVars

Output ==
  /\ \E path \in Values : DoAppend(<<path>>, <<>>, MaxTokens)
  /\ UNCHANGED notCmdVars

VideoCodec ==
  /\ \E codec \in Values : FlagValue("-c:v", codec)
  /\ UNCHANGED notCmdVars

AudioCodec ==
  /\ \E codec \in Values : FlagValue("-c:a", codec)
  /\ UNCHANGED notCmdVars

CRF ==
  /\ \E v \in IntValues : FlagValue("-crf", itoa(v))
  /\ UNCHANGED notCmdVars

Preset ==
  /\ \E p \in Values : FlagValue("-preset", p)
  /\ UNCHANGED notCmdVars

Tune ==
  /\ \E t \in Values : FlagValue("-tune", t)
  /\ UNCHANGED notCmdVars

MovFlagsFastStart ==
  /\ FlagValue("-movflags", "+faststart")
  /\ UNCHANGED notCmdVars

Map ==
  /\ \E spec \in Values : FlagValue("-map", spec)
  /\ UNCHANGED notCmdVars

Scale ==
  /\ \E w \in IntValues, h \in IntValues :
       FlagValue("-vf", "scale=" \o itoa(w) \o ":" \o itoa(h))
  /\ UNCHANGED notCmdVars

FPS ==
  /\ \E fps \in Values : FlagValue("-r", fps)
  /\ UNCHANGED notCmdVars

StartAt ==
  /\ \E seconds \in Seconds : FlagValue("-ss", trimFloat(seconds))
  /\ UNCHANGED notCmdVars

\* A direct caller of AppendArgs.
CmdAppendArgs ==
  /\ \E toks \in {<<"a">>, <<"a", "b">>} : DoAppend(toks, <<>>, MaxArgs)
  /\ UNCHANGED notCmdVars

\* A vector handed out: the slice, its elements when it was handed out, and
\* the number of mutator calls made before.
Snap(kind, h, sl) ==
  [kind |-> kind, sl |-> sl, at |-> Content(h, sl), ver |-> nMut]

\* run.go:48-54: the run takes cmd.Args() and, with a sink, appends the
\* progress flags to what it got.
CmdRun ==
  /\ Len(snaps) < MaxSnaps
  /\ \E sink \in BOOLEAN :
       LET a == Args(heap, cargs)
           r == IF sink
                  THEN GoAppend(a.heap, a.sl,
                                <<"-progress", "pipe:1", "-nostats">>)
                  ELSE a
       IN /\ heap' = r.heap
          /\ snaps' = Append(snaps,
                             Snap(IF sink THEN "runp" ELSE "run", r.heap, r.sl))
  /\ UNCHANGED <<cargs, cghost, calls, nMut>>
  /\ UNCHANGED notCmdVars

\* The fluent mutators on a fresh command.
NextCmd ==
  \/ HideBanner
  \/ LogLevel
  \/ Input
  \/ Overwrite
  \/ Output
  \/ VideoCodec
  \/ AudioCodec
  \/ CRF
  \/ Preset
  \/ Tune
  \/ MovFlagsFastStart
  \/ Map
  \/ Scale
  \/ FPS
  \/ StartAt

\* A command that is mutated and run in any order.
NextArgs ==
  \/ CmdAppendArgs
  \/ Overwrite
  \/ CmdRun

--------------------------------------------------------------------------
(* Specifications *)

InitTool ==
  /\ ToolInit
  /\ binary \in BinaryKinds
  /\ RunIdle
  /\ JobIdle
  /\ StoreIdle
  /\ DecodeInit
  /\ LockInit
  /\ SSEIdle
  /\ CmdNew

SpecTool == InitTool /\ [][NextTool]_vars

InitRun ==
  /\ ToolInit
  /\ binary = "ok"
  /\ RunInit
  /\ JobIdle
  /\ StoreIdle
  /\ DecodeInit
  /\ LockInit
  /\ SSEIdle
  /\ CmdNew

SpecRun == InitRun /\ [][NextRun]_vars

\* The steps that are taken when they can be: those of the call's own
\* goroutines, of os/exec's watcher, and of the deadline timer.  What the
\* subprocess and the caller's context do is left open, and so is how many
\* of the written lines are read before the pipe is closed.
FairRun ==
  /\ WF_vars(RunEnsureReady)
  /\ WF_vars(RunStart)
  /\ WF_vars(RunGoStderr)
  /\ WF_vars(RunGoStdout)
  /\ WF_vars(RunWait)
  /\ WF_vars(RunWgWait)
  /\ WF_vars(RunReturn)
  /\ WF_vars(DrainStderrEnd)
  /\ WF_vars(DrainStdoutEnd)
  /\ WF_vars(ProcKill)
  /\ WF_vars(RunDeadline)

SpecRunFair == InitRun /\ [][NextRun]_vars /\ FairRun

\* One RunWithProgress call on a command that was built before.
InitRunCmd ==
  /\ ToolInit
  /\ binary = "ok"
  /\ RunInit
  /\ JobIdle
  /\ StoreIdle
  /\ DecodeInit
  /\ LockInit
  /\ SSEIdle
  /\ CmdBuilt

SpecRunCmd == InitRunCmd /\ [][NextRun]_vars

\* One job and its event-stream requests, in every interleaving.
InitJob ==
  /\ ToolInit
  /\ binary = "ok"
  /\ RunIdle
  /\ JobInit(MaxProgress)
  /\ StoreInit
  /\ DecodeInit
  /\ LockInit
  /\ SSEIdle
  /\ CmdNew

SpecJob == InitJob /\ [][NextJob]_vars

\* The slow-subscriber scenario: both handlers have registered their
\* channels before the job goroutine's first step (a state SpecJob reaches);
\* s1 then stalls and never receives, s2 has written the initial status and
\* is unconstrained.
HubInit ==
  /\ jobStatus = "created"
  /\ statusWr = "none"
  /\ jpc = "wRunning"
  /\ lineBudget = HubProgress
  /\ nProgress = 0
  /\ subs = Subs
  /\ chan = [s \in Subs |-> <<>>]
  /\ chClosed = [s \in Subs |-> FALSE]
  /\ hpc = [s \in Subs |-> IF s = "s1" THEN "subscribed" ELSE "streaming"]
  /\ shown = [s \in Subs |->
        IF s = "s1" THEN <<>> ELSE <<Ev("status", "created")>>]
  /\ bcast = <<>>
  /\ subAt = [s \in Subs |-> 0]
  /\ everFull = [s \in Subs |-> FALSE]
  /\ lastDeliv = [s \in Subs |-> NoEv]
  /\ endSubs = {}
  /\ subStatus = [s \in Subs |-> "created"]

NextHub ==
  \/ JobSteps
  \/ HandlerRecv("s2")
  \/ HandlerCtxDone("s2")
  \/ HandlerUnsubscribe("s2")
  \/ HandlerClose("s2")

InitHub ==
  /\ ToolInit
  /\ binary = "ok"
  /\ RunIdle
  /\ HubInit
  /\ StoreInit
  /\ DecodeInit
  /\ LockInit
  /\ SSEIdle
  /\ CmdNew

SpecHub == InitHub /\ [][NextHub]_vars

\* One job without subscribers, its eviction and the download requests.
InitStore ==
  /\ ToolInit
  /\ binary = "ok"
  /\ RunIdle
  /\ JobInit(MaxProgress)
  /\ StoreInit
  /\ DecodeInit
  /\ LockInit
  /\ SSEIdle
  /\ CmdNew

SpecStore == InitStore /\ [][NextStore]_vars

\* One scanProgress call on any three of the lines.
InitDecode ==
  /\ ToolInit
  /\ binary = "ok"
  /\ RunIdle
  /\ JobIdle
  /\ StoreIdle
  /\ DecodeInit
  /\ LockInit
  /\ SSEIdle
  /\ CmdNew

SpecDecode == InitDecode /\ [][NextDecode]_vars

\* The goroutines of one job and their critical sections.
InitLock ==
  /\ ToolInit
  /\ binary = "ok"
  /\ RunIdle
  /\ JobIdle
  /\ StoreIdle
  /\ DecodeInit
  /\ LockInit
  /\ SSEIdle
  /\ CmdNew

SpecLock == InitLock /\ [][NextLock]_vars

\* One writeSSE call on any event name and any data of up to MaxData bytes.
InitSSE ==
  /\ ToolInit
  /\ binary = "ok"
  /\ RunIdle
  /\ JobIdle
  /\ StoreIdle
  /\ DecodeInit
  /\ LockInit
  /\ SSEIdle
  /\ CmdNew

SpecSSE == InitSSE /\ [][NextSSE]_vars

\* A fresh command.
InitCmd ==
  /\ ToolInit
  /\ binary = "ok"
  /\ RunIdle
  /\ JobIdle
  /\ StoreIdle
  /\ DecodeInit
  /\ LockInit
  /\ SSEIdle
  /\ CmdNew

SpecCmd == InitCmd /\ [][NextCmd]_vars

SpecArgs == InitCmd /\ [][NextArgs]_vars

--------------------------------------------------------------------------
(* Claims *)

Min(a, b) == IF a <= b THEN a ELSE b

\* The events handler s received from its channel: what it wrote after the
\* initial status.
Recvd(s) == IF shown[s] = <<>> THEN <<>> ELSE Tail(shown[s])

\* The terminal events among those broadcast so far.
TerminalSent == {i \in 1..Len(bcast) : IsTerminal(bcast[i])}

Sent(name) == \E i \in 1..Len(bcast) : bcast[i].Event = name

JobOver == jpc \in {"defer", "finished"}

\* C1: a job whose run returned has broadcast exactly one terminal event by
\* the time its goroutine ends: the done event if and only if its status is
\* done, the error event (named fferror in the code) if and only if its
\* status is error; at no time have two terminal events been broadcast.
C1_OneTerminalEvent ==
  /\ Cardinality(TerminalSent) <= 1
  /\ JobOver =>
       /\ Cardinality(TerminalSent) = 1
       /\ Sent("done") <=> jobStatus = "done"
       /\ Sent("fferror") <=> jobStatus = "error"

C1_Witness ==
  /\ jpc = "finished" /\ jobStatus = "error"
  /\ Sent("fferror") /\ ~Sent("done") /\ Sent("progress")

\* The order of the statuses: created, then running, then done or error.
Rank(v) ==
  IF v = "created" THEN 0 ELSE IF v = "running" THEN 1 ELSE 2

\* The statuses handler s has shown, in order: the payloads of the status
\* events it wrote.
StatusIdx(s) == {i \in 1..Len(shown[s]) : shown[s][i].Event = "status"}

\* C2: the statuses shown to one subscriber never go backwards: no status
\* is shown after a later one of the walk created, running, done | error.
C2_StatusesMonotone ==
  \A s \in Subs : \A i, j \in StatusIdx(s) :
    (i < j /\ shown[s][i].Data \in StatusValues
           /\ shown[s][j].Data \in StatusValues)
      => Rank(shown[s][i].Data) <= Rank(shown[s][j].Data)

\* C3: when the job has terminated, the last event delivered
\* into every channel that was registered at the terminal broadcast is the
\* terminal event.
C3_TerminalIsLastForAll ==
  JobOver => \A s \in endSubs : IsTerminal(lastDeliv[s])

\* C4: broadcast never blocks and never overfills a channel: every
\* broadcast the job goroutine has reached can be taken; a registered
\* subscriber that has received nothing holds the first ChanCap events
\* broadcast since it registered and no other; a registered subscriber whose
\* channel was never found full has got every event broadcast since it
\* registered, in order.
C4_BroadcastNeverBlocks ==
  /\ \A s \in Subs : Len(chan[s]) <= ChanCap
  /\ jpc \in BroadcastPcs => ENABLED JobBroadcast
  /\ (jpc = "run" /\ nProgress < lineBudget) => ENABLED JobProgress
  /\ \A s \in subs :
       Recvd(s) = <<>> =>
         chan[s] = SubSeq(bcast, subAt[s] + 1,
                          Min(subAt[s] + ChanCap, Len(bcast)))
  /\ \A s \in subs :
       ~everFull[s] =>
         Recvd(s) \o chan[s] = SubSeq(bcast, subAt[s] + 1, Len(bcast))

C4_Witness ==
  /\ Len(bcast) > ChanCap
  /\ "s1" \in subs /\ Len(chan["s1"]) = ChanCap /\ everFull["s1"]
  /\ "s2" \in subs /\ ~everFull["s2"]
  /\ Len(Recvd("s2")) = Len(bcast)

\* C5: the expensive check (LookPath and the -version subprocess) runs at
\* most once per tool instance, and all ensureReady calls return the same
\* outcome.
C5_CheckAtMostOnce ==
  /\ nChecks <= 1
  /\ nProbes <= 1
  /\ \A c, d \in Callers :
       (cret[c] # "none" /\ cret[d] # "none") => cret[c] = cret[d]

\* C6: once checked is true, resolvedPath, version and checkErr never
\* change again.
C6_FrozenOnceChecked ==
  [][checked =>
       <<resolvedPath, version, checkErr>>' = <<resolvedPath, version, checkErr>>]_vars

\* C7: the status is one of created, running, done, error, and it changes
\* only from created to running, from running to done and from running to
\* error.
C7_StatusMachine ==
  /\ [](jobStatus \in StatusValues)
  /\ [][jobStatus' # jobStatus =>
          <<jobStatus, jobStatus'>> \in
            {<<"created", "running">>, <<"running", "done">>,
             <<"running", "error">>}]_vars

C7_Witness == jpc = "finished" /\ jobStatus = "done"

SubscribedAfterEnd(s) == subAt[s] >= 1 /\ IsTerminal(bcast[subAt[s]])

C9_DrainsJoined ==
  /\ rpc \in {"wait", "wgwait", "map"} =>
       (nDrains = 2 /\ \A d \in Drains : drain[d] # "none")
  /\ rpc = "returned" =>
       IF proc = "none" THEN nDrains = 0
       ELSE nDrains = 2 /\ \A d \in Drains : drain[d] = "done"

C9_Witness ==
  /\ rpc = "returned" /\ rResult = "failed" /\ rSink /\ nLines = MaxLines
  /\ \A d \in Drains : drain[d] = "done"

\* The outcome of a started run, by its wait result and the run-scoped
\* context's error at the time of the mapping.
StartedAndReturned == rpc = "returned" /\ waitErr # "unset"

\* C10 as claimed: deadline exceeded gives the timeout error whatever the
\* wait result; otherwise a non-zero exit gives failed, any other wait
\* error gives the exec error, and no wait error gives success.
C10_DeadlineAlwaysWins ==
  StartedAndReturned =>
    rResult = IF mapCtx = "DeadlineExceeded" THEN "timeout"
              ELSE IF waitErr = "ExitError" THEN "failed"
              ELSE IF waitErr # "nil" THEN "execErr"
              ELSE "ok"

\* C10, amended: a nil wait result gives success, also when the deadline
\* has been exceeded; a non-nil wait result gives the timeout error when the
\* deadline has been exceeded, otherwise failed for an exit error and the
\* exec error for any other.
C10_OutcomeMapping ==
  StartedAndReturned =>
    /\ waitErr = "nil" => rResult = "ok"
    /\ (waitErr # "nil" /\ mapCtx = "DeadlineExceeded") => rResult = "timeout"
    /\ (waitErr = "ExitError" /\ mapCtx # "DeadlineExceeded") => rResult = "failed"
    /\ (waitErr = "other" /\ mapCtx # "DeadlineExceeded") => rResult = "execErr"

C10_Witness ==
  /\ StartedAndReturned
  /\ waitErr = "nil" /\ mapCtx = "DeadlineExceeded" /\ rResult = "ok"

\* C12: a call that begins after a failed readiness check was cached
\* returns that same error: the error the instance held when the call began
\* is the error the call returns.
C12_FailureReplayed ==
  \A c \in Callers :
    (cpc[c] = "returned" /\ cseen[c] \notin {"unchecked", "nil"})
      => cret[c] = cseen[c]

\* C13: a call whose ensureReady returned an error has returned that error
\* at once: no subprocess was started, no drain launched, no line read, the
\* sink never invoked, and the snapshot it returns is the zero value.
C13_UnreadyFailsFast ==
  rErr # "nil" =>
    /\ rpc = "returned" /\ rResult = rErr
    /\ proc = "none" /\ nDrains = 0
    /\ nLines = 0 /\ ~sinkErr /\ rLast = "zero"
    /\ stderrBuf = <<>>

C13_Witness ==
  rpc = "returned" /\ rSink /\ rErr = "notfound" /\ rResult = "notfound"

\* C15: the diagnostic text embedded in the error of a returned run is at
\* most DiagCap bytes long, however much the subprocess wrote.
C15_DiagnosticBounded ==
  rpc = "returned" => Len(rDiag) <= DiagCap

\* C16: a started run whose sink returned an error before progress=end was
\* decoded returns the timeout error.
C16_AbortReportedAsTimeout ==
  (rpc = "returned" /\ waitErr # "unset" /\ sinkErr /\ rLast # "done")
    => rResult = "timeout"

SameEv(x, y) == x.Event = y.Event /\ x.Data = y.Data

\* a is b with some elements left out.
RECURSIVE IsSubseq(_, _)
IsSubseq(a, b) ==
  IF a = <<>> THEN TRUE
  ELSE IF b = <<>> THEN FALSE
  ELSE IF SameEv(Head(a), Head(b)) THEN IsSubseq(Tail(a), Tail(b))
  ELSE IsSubseq(a, Tail(b))

\* The positions of the progress events of a sequence.
ProgressIdx(q) == {i \in 1..Len(q) : q[i].Event = "progress"}

\* C14: what a subscriber has received from its channel, followed by what
\* its channel still holds, is the sequence of events broadcast since it
\* registered with some events left out: same relative order, nothing
\* twice (the events of one job are pairwise different); and its progress
\* events are in the order in which their lines were decoded.
C14_ReceivedInBroadcastOrder ==
  /\ \A i, j \in 1..Len(bcast) : i # j => ~SameEv(bcast[i], bcast[j])
  /\ \A s \in Subs :
       LET got == Recvd(s) \o chan[s] IN
         /\ IsSubseq(got, SubSeq(bcast, subAt[s] + 1, Len(bcast)))
         /\ \A i, j \in ProgressIdx(got) : i < j => got[i].Data < got[j].Data

\* A subscriber that lost an event in the middle and got the terminal one.
C14_Witness ==
  /\ everFull["s2"] /\ hpc["s2"] = "returned"
  /\ Len(Recvd("s2")) < Len(bcast)
  /\ \E i \in 1..Len(Recvd("s2")) : IsTerminal(Recvd("s2")[i])
  /\ Cardinality(ProgressIdx(Recvd("s2"))) >= 2

\* What holds of the eviction in every state.
EvictionInv ==
  /\ nSched = (IF jpc = "finished" THEN 1 ELSE 0)
  /\ timer # "none" => (jobStatus \in {"done", "error"} /\ statusWr = "none")
  /\ nFired <= 1
  /\ timer \in {"none", "armed"} => (Get(jobs, JobId) /\ artifact /\ nFired = 0)
  /\ timer \in {"removing", "fired"} => (~artifact /\ nFired = 1)
  /\ timer = "fired" => ~Get(jobs, JobId)

\* C11: eviction is scheduled once, when the job goroutine ends, which is
\* after the status became done or error; it fires at most once; when it
\* has fired the artifact is deleted and the job is out of the store, it
\* stays out, and every lookup of its id made from then on fails.
C11_EvictedOnce ==
  /\ []EvictionInv
  /\ [][timer = "fired" =>
          /\ timer' = "fired"
          /\ ~Get(jobs', JobId)
          /\ nReq' # nReq => dres' = "notfound"]_vars

C11_Witness ==
  /\ timer = "fired" /\ jobStatus = "done" /\ nSched = 1 /\ nFired = 1
  /\ nReq = 2 /\ did = JobId /\ dres = "notfound"

\* The status is done for a reader: the assignment of line 417 is complete
\* or under way (a reader that overlaps it can already see the new value).
StatusIsDone == jobStatus = "done" \/ statusWr = "done"

\* C17: a download request gets to the file only for the id of a stored
\* job whose status is done; a request for an id that is not in the store
\* is answered "not found", and no request is let through while the job is
\* created, running or error.
C17_ArtifactOnlyWhenDone ==
  /\ (dpc = "serve" \/ dres \in {"file", "nofile"}) =>
       (did = JobId /\ StatusIsDone /\ jobStatus # "error")
  /\ (dpc = "idle" /\ nReq > 0 /\ did # JobId) => dres = "notfound"
  /\ dpc \in {"check", "serve"} => did = JobId

C17_Witness ==
  /\ dres = "file" /\ did = JobId /\ jobStatus = "done" /\ nReq = 2

\* A turn of scanProgress's loop has just read curLine'.
LineRead == nScan' = nScan + 1

\* C18: once a progress=end line has been read the decode call has
\* stopped: the line read last is that line, the snapshot and *last have
\* done set, the sink's last snapshot is that one, and from then on no line
\* is read, folded or handed to the sink.
C18_EndStopsTheScan ==
  /\ [](endSeen =>
          /\ spc = "returned"
          /\ IsEndLine(curLine)
          /\ sp.Done /\ slast.Done /\ slast = sp
          /\ sunk # <<>> /\ sunk[Len(sunk)] = slast
          /\ \A i \in 1..(Len(sunk) - 1) : ~sunk[i].Done)
  /\ [][endSeen => UNCHANGED <<sp, slast, sunk, nScan, curLine>>]_vars

C18_Witness ==
  /\ endSeen /\ nScan = 2 /\ spc = "returned" /\ slast.Done
  /\ slast.Frame = 120 /\ Len(sunk) = 2

\* The key and the value parseProgressLine finds in a line that has a key.
KeyOf(line) ==
  SubSeq(TrimSpace(line), 1, IndexByte(TrimSpace(line), "="))

ValueOf(line) ==
  SubSeq(TrimSpace(line), IndexByte(TrimSpace(line), "=") + 2,
         Len(TrimSpace(line)))

\* The line sets a typed key to a value that does not parse.
MalformedTyped(line) ==
  /\ IndexByte(TrimSpace(line), "=") > 0
  /\ \/ KeyOf(line) \in {<<"frame">>, <<"out_time_ms">>} /\ ~Atoi(ValueOf(line)).ok
     \/ KeyOf(line) = <<"fps">> /\ ~ParseFloat(ValueOf(line)).ok

\* C19: folding a line that gives frame, fps or out_time_ms a value that
\* does not parse leaves the whole snapshot as it was, and the decode goes
\* on (it ends only if the sink asks for it).
C19_MalformedValueDropped ==
  [][(LineRead /\ MalformedTyped(curLine')) =>
        /\ sp' = sp
        /\ slast' = sp
        /\ ~cbRet' => spc' = "scan"]_vars

\* frame=120 followed by frame=a: frame is still 120.
C19_Witness ==
  /\ nScan = 2 /\ curLine = <<"frame", "=", "a">>
  /\ sp.Frame = 120 /\ slast.Frame = 120 /\ spc = "scan"

\* The line is blank, has no separator, or has an empty key.
Ignorable(line) ==
  \/ TrimSpace(line) = <<>>
  \/ IndexByte(TrimSpace(line), "=") = -1
  \/ IndexByte(TrimSpace(line), "=") = 0

\* C20: folding a blank line, a line without '=' or a line with an empty
\* key leaves every field of the snapshot, the extra map included, as it
\* was, and the decode goes on.
C20_IgnorableLineNoEffect ==
  [][(LineRead /\ Ignorable(curLine')) =>
        /\ sp' = sp
        /\ ~cbRet' => spc' = "scan"]_vars

\* An empty-key line read after lines that set a field and the extra map.
C20_Witness ==
  /\ nScan = 3 /\ curLine = <<" ", "=", "1">>
  /\ sp.Frame = 2 /\ DOMAIN sp.Extra # {} /\ spc = "scan"

ProcAlive == proc \in {"running", "blocked"}

ProcEnded == proc \in {"exited0", "exitedN", "killed"}

\* C25: while the call waits for a subprocess that has not ended, both
\* pipes have a running reader and the subprocess is not blocked on a pipe.
C25_PipesAlwaysDrained ==
  (rpc = "wait" /\ ProcAlive) =>
    /\ \A d \in Drains : drain[d] = "running"
    /\ proc # "blocked"

\* C26: a call with a sink that returns success has read every progress
\* line the subprocess wrote, or all of them up to a progress=end line.
C26_NoLineLost ==
  (rpc = "returned" /\ waitErr # "unset" /\ rSink /\ rResult = "ok")
    => (rLast = "done" \/ nLines = nWritten)

\* C29: once the sink has returned an error, no further line is handed to
\* it, the run-scoped context is done, and the call eventually returns, with
\* the subprocess ended and both drains ended.
C29_AbortEndsTheRun ==
  /\ [](sinkErr => (runCtx # "nil" /\ drain["stdout"] = "done"))
  /\ [][sinkErr => (nLines' = nLines /\ sinkErr')]_vars
  /\ []((sinkErr /\ rpc = "returned") =>
          (ProcEnded /\ \A d \in Drains : drain[d] = "done"))
  /\ (sinkErr ~> rpc = "returned")

C29_Witness ==
  /\ sinkErr /\ rpc = "returned" /\ proc = "killed" /\ ctxBy = "sink"
  /\ nLines = 1 /\ nWritten = 2

\* C30 as claimed: with Timeout > 0, a run whose subprocess did not exit by
\* itself (it was killed) and whose sink did not abort returns the timeout
\* error.
C30_TimeoutAlwaysReported ==
  (rpc = "returned" /\ rTimeout /\ proc = "killed" /\ ~sinkErr)
    => rResult = "timeout"

\* C30, amended: with Timeout > 0 a run whose subprocess is alive
\* eventually returns; a run whose subprocess was killed returns the timeout
\* error when the run-scoped context's error is DeadlineExceeded and a
\* failure that is not the timeout error when the context was cancelled
\* (by the caller or by the sink); the deadline timer exists only with
\* Timeout > 0.
C30_TimeoutEndsTheRun ==
  /\ ((rTimeout /\ ProcAlive) ~> rpc = "returned")
  /\ []((rpc = "returned" /\ proc = "killed") =>
          /\ mapCtx = "DeadlineExceeded" => rResult = "timeout"
          /\ mapCtx = "Canceled" => rResult \in {"failed", "execErr"}
          /\ mapCtx # "nil")
  /\ [](ctxBy = "deadline" => (rTimeout /\ runCtx = "DeadlineExceeded"))

C30_Witness ==
  /\ rpc = "returned" /\ rTimeout /\ proc = "killed"
  /\ ctxBy = "deadline" /\ rResult = "timeout"

\* C28 as claimed: a goroutine that is executing a pipe read, a subprocess
\* wait or a channel send holds no mutex.
C28_NoLockDuringIO ==
  \A g \in Goroutines :
    lop[g].op \in {"piperead", "wait", "send"} => lheld[g] = {}

\* C28, amended: a goroutine that is executing a pipe read, a subprocess
\* wait or any operation that can block holds no mutex; a channel send is
\* made under the job's mutex and cannot block.
C28_NoLockAcrossBlocking ==
  \A g \in Goroutines :
    /\ lop[g].op \in {"piperead", "wait"} => lheld[g] = {}
    /\ lop[g].blocks => lheld[g] = {}
    /\ lop[g].op = "send" => (lheld[g] = {"job"} /\ ~lop[g].blocks)
    /\ Cardinality(lheld[g]) <= 1

C28_Witness ==
  /\ lop["job"].op = "wait" /\ lheld["job"] = {}
  /\ lop["drain"].op = "send" /\ lheld["drain"] = {"job"}
  /\ lop["handler"].op = "recv"

\* C23 as claimed: every broadcast event is named status, progress, done or
\* error.
C23_NamesAsListed ==
  \A i \in 1..Len(bcast) :
    bcast[i].Event \in {"status", "progress", "done", "error"}

IsStatusEv(e) == e.Event = "status"

IsProgressEv(e) == e.Event = "progress"

StatusEvs == SelectSeq(bcast, IsStatusEv)

ProgressEvs == SelectSeq(bcast, IsProgressEv)

\* C23, amended: every broadcast event is named status, progress, done or
\* fferror; once the broadcast that follows a status write is made, the
\* last status event carries the job's status; and every sink invocation
\* has broadcast one progress event, in order.
C23_EventsNamedAndComplete ==
  /\ \A i \in 1..Len(bcast) :
       bcast[i].Event \in {"status", "progress", "done", "fferror"}
  /\ (jobStatus # "created"
        /\ jpc \notin {"bRunning", "bStatusError", "bStatusDone"})
       => /\ Len(StatusEvs) > 0
          /\ StatusEvs[Len(StatusEvs)].Data = jobStatus
  /\ Len(ProgressEvs) = nProgress
  /\ \A k \in 1..Len(ProgressEvs) : ProgressEvs[k].Data = k

C23_Witness ==
  /\ jpc = "finished"
  /\ jobStatus = "error"
  /\ nProgress = 2
  /\ Len(StatusEvs) = 2
  /\ bcast[Len(bcast)].Event = "fferror"

\* C27: a handler never reads the job's status while an assignment to it is
\* in progress, as a mutex around both would ensure.
C27_StatusAccessExclusive ==
  [][\A s \in Subs :
      (hpc[s] = "subscribed" /\ hpc'[s] = "streaming") => statusWr = "none"]_vars

\* The text cut at every newline.
RECURSIVE SplitLF(_)
SplitLF(str) ==
  IF str = <<>> THEN <<<<>>>>
  ELSE LET rest == SplitLF(Tail(str))
       IN IF Head(str) = "LF" THEN <<<<>>>> \o rest
          ELSE <<<<Head(str)>> \o Head(rest)>> \o Tail(rest)

\* p is d with every carriage return dropped and every newline written as
\* a backslash and an n.
RECURSIVE Escapes(_, _)
Escapes(d, p) ==
  IF d = <<>> THEN p = <<>>
  ELSE IF Head(d) = "CR" THEN Escapes(Tail(d), p)
  ELSE IF Head(d) = "LF"
    THEN /\ Len(p) >= 2
         /\ p[1] = "BS" /\ p[2] = "n"
         /\ Escapes(Tail(d), SubSeq(p, 3, Len(p)))
  ELSE /\ Len(p) >= 1
       /\ p[1] = Head(d)
       /\ Escapes(Tail(d), Tail(p))

StartsWith(line, tok) == Len(line) > 0 /\ line[1] = tok

\* C24: what writeSSE writes for one event is one 'event:' line, one
\* 'data:' line and an empty line; the data line holds the data with no raw
\* newline or carriage return, each newline written as backslash-n.
C24_OneEventOneDataLine ==
  sseIn # NoCall =>
    LET ls == SplitLF(sseOut) IN
      /\ Len(ls) = 4
      /\ ls[1] = <<"event: ", sseIn.event>>
      /\ StartsWith(ls[2], "data: ")
      /\ ls[3] = <<>> /\ ls[4] = <<>>
      /\ Cardinality({i \in 1..Len(ls) : StartsWith(ls[i], "event: ")}) = 1
      /\ Cardinality({i \in 1..Len(ls) : StartsWith(ls[i], "data: ")}) = 1
      /\ \A i \in 1..Len(sseOut) : sseOut[i] # "CR"
      /\ Escapes(sseIn.data, Tail(ls[2]))

C24_Witness ==
  /\ sseIn.event = "fferror"
  /\ sseIn.data = <<"a", "CR", "LF">>
  /\ sseOut = <<"event: ", "fferror", "LF", "data: ", "a", "BS", "n", "LF", "LF">>

\* C21: a vector handed out by Args still holds the elements it held when
\* it was handed out, whatever the builder did since; the builder holds
\* the list its mutator calls built, whatever the runs appended; and two
\* runs of the same kind with no mutator call between them got the same
\* arguments.
C21_SnapshotIndependent ==
  /\ \A i \in 1..Len(snaps) : Content(heap, snaps[i].sl) = snaps[i].at
  /\ Content(heap, cargs) = cghost
  /\ \A i, j \in 1..Len(snaps) :
       (snaps[i].kind = snaps[j].kind /\ snaps[i].ver = snaps[j].ver)
         => Content(heap, snaps[i].sl) = Content(heap, snaps[j].sl)

C21_Witness ==
  /\ Len(snaps) = 2
  /\ snaps[1].kind = "runp" /\ snaps[2].kind = "runp"
  /\ snaps[1].ver = snaps[2].ver
  /\ nMut > snaps[2].ver
  /\ cargs.len = 6 /\ cargs.cap = 8
  /\ snaps[1].at = <<"-y", "a", "a", "a", "a", "-progress", "pipe:1", "-nostats">>

\* The number of value-taking flags among the first n elements.
ValueFlags ==
  {"-v", "-i", "-c:v", "-c:a", "-crf", "-preset", "-tune", "-movflags",
   "-map", "-vf", "-r", "-ss"}

FlagsUpTo(elems, n) == Cardinality({i \in 1..n : elems[i] \in ValueFlags})

\* C22: every value-taking flag of the argument list is immediately
\* followed by the value it was given, the k-th such flag being that of
\* the k-th value-taking call.
C22_FlagsFollowedByValues ==
  LET elems == Content(heap, cargs) IN
    /\ FlagsUpTo(elems, Len(elems)) = Len(calls)
    /\ \A i \in 1..Len(elems) :
         elems[i] \in ValueFlags =>
           /\ i < Len(elems)
           /\ <<elems[i], elems[i + 1]>> = calls[FlagsUpTo(elems, i)]

\* C31: every channel in the job's subscriber set is open, so no broadcast
\* sends on a closed channel.
C31_SubscribersOpen == \A s \in Subs : s \in subs => ~chClosed[s]

\* s1 was closed and the job went on broadcasting to s2.
C31_Witness ==
  /\ chClosed["s1"] /\ subAt["s1"] = 0 /\ ~everFull["s1"]
  /\ lastDeliv["s1"].Event = "status"
  /\ "s2" \in subs
  /\ lastDeliv["s2"].Event = "done"

\* The handlers that have subscribed and not yet unsubscribed.
Running(s) == hpc[s] \in {"subscribed", "streaming", "unsub"}

\* C38: a handler that has returned has had its channel removed from the
\* subscriber set and closed; a channel is closed once, by its handler's
\* return, after its removal; and the subscriber set holds only channels
\* of handlers that are still running.
C38_UnsubscribedOnReturn ==
  /\ [](\A s \in Subs :
          /\ hpc[s] = "returned" => (s \notin subs /\ chClosed[s])
          /\ s \in subs => Running(s))
  /\ [][\A s \in Subs :
          /\ (hpc[s] # "returned" /\ hpc'[s] = "returned")
               => (~chClosed[s] /\ chClosed'[s] /\ s \notin subs)
          /\ chClosed[s] => (chClosed'[s] /\ hpc'[s] = "returned")]_vars

\* s1 returned on the terminal event, s2 on a closed connection.
C38_Witness ==
  /\ hpc["s1"] = "returned" /\ hpc["s2"] = "returned"
  /\ shown["s1"] # <<>> /\ IsTerminal(shown["s1"][Len(shown["s1"])])
  /\ \A i \in 1..Len(shown["s2"]) : ~IsTerminal(shown["s2"][i])
  /\ subs = {}
  /\ chClosed["s1"] /\ chClosed["s2"]

\* C32: while the job is in the store with status done its output file
\* exists, and no download request that found the job is answered without
\* the file.
C32_StoredJobHasArtifact ==
  /\ (Get(jobs, JobId) /\ jobStatus = "done") => artifact
  /\ dres # "nofile"

\* The snapshot the sink got last, the zero snapshot before any.
LastSunk == IF sunk = <<>> THEN ZeroProgress ELSE sunk[Len(sunk)]

\* C33: the sink has been invoked once per line read; each invocation
\* comes after the earlier ones and gets the fold of its line into the
\* snapshot of the one before; and *last, which RunWithProgress returns, is
\* the snapshot of the last invocation, also when that one asked to abort.
C33_SinkOncePerLine ==
  /\ [](/\ Len(sunk) = nScan
        /\ slast = LastSunk
        /\ cbRet => (spc = "returned" /\ nScan > 0))
  /\ [][LineRead =>
          /\ Len(sunk') = Len(sunk) + 1
          /\ SubSeq(sunk', 1, Len(sunk)) = sunk
          /\ sunk'[Len(sunk')] = parseProgressLine(curLine', LastSunk)]_vars

C33_Witness ==
  /\ spc = "returned" /\ cbRet
  /\ nScan = 3 /\ Len(sunk) = 3
  /\ sunk[1] # sunk[2] /\ sunk[2] = sunk[3]
  /\ slast = sunk[3]

\* C35: every snapshot the sink was handed still reads as it did when it
\* was handed over, its extra map included.
C35_SnapshotStable == \A k \in 1..Len(sunk) : HeldNow(k) = sunk[k]

\* C36: the outcome the readiness check has cached is the one the binary
\* gives to a caller with a live context, whatever the context of the
\* caller that ran the check was.
C36_OutcomeFromBinaryOnly ==
  checked =>
    checkErr = (IF LookPath(binary) = "" THEN "notfound"
                ELSE ProbeOutcome(binary, "live"))

PolicyFlags == {"-y", "-n"}

\* C37: a command that only Overwrite calls have touched (its list holds
\* nothing but overwrite-policy flags) holds exactly one such flag.
C37_OnePolicyFlag ==
  LET elems == Content(heap, cargs) IN
    (\A i \in 1..Len(elems) : elems[i] \in PolicyFlags)
      => elems \in {<<"-y">>, <<"-n">>}

\* The call got as far as line 54.
ArgsTaken == rpc \notin {"entry", "start"} /\ rErr = "nil"

\* C34: with a sink the subprocess is given the command's arguments
\* followed by -progress pipe:1 -nostats; without one it is given the
\* command's arguments, no line of the primary stream is decoded, the sink
\* is never invoked and the snapshot returned is the zero snapshot.  The
\* command keeps its arguments.
C34_ArgsAndDiscard ==
  /\ Content(heap, cargs) = cghost
  /\ (ArgsTaken /\ rSink)
       => rArgs = cghost \o <<"-progress", "pipe:1", "-nostats">>
  /\ (ArgsTaken /\ ~rSink) => rArgs = cghost
  /\ proc # "none" => ArgsTaken
  /\ ~rSink => (nLines = 0 /\ ~sinkErr /\ rLast = "zero")

C34_Witness ==
  /\ rpc = "returned" /\ rResult = "ok" /\ ~rSink
  /\ nWritten = 2 /\ nLines = 0 /\ rLast = "zero"
  /\ rArgs = <<"-y", "a", "a", "a", "a">>
  /\ cargs.cap = 8

====
